---- MODULE Spec2Model ----
(***************************************************************************)
(* A state-machine model of the notes-app backend: the users and notes     *)
(* collections, the clock, the e-mail outbox, the bearer tokens held by    *)
(* clients, and the HTTP requests in flight.  Every `await` on the store   *)
(* in a handler is a point where other requests may run, so a handler is   *)
(* one action per store round trip.  On a bearer-protected route the       *)
(* middleware's lookup of the user and the handler's first round trip are  *)
(* one step: the specifications that use these routes change either the    *)
(* users or the notes, never both, so nothing can come between the two.    *)
(* Time is in minutes; the token lifetime is scaled to the clock's range.  *)
(***************************************************************************)
EXTENDS Integers, Sequences, FiniteSets, TLC

VARIABLES
  users,       \* the users collection
  notes,       \* the notes collection: _id -> document
  nextNoteId,  \* the _id the next inserted note gets
  now,         \* the clock, in minutes
  reqs,        \* the requests being handled, one per slot
  reply,       \* the last response sent, with the request it answers
  outbox,      \* the last e-mail the transport delivered
  tokens,      \* the bearer tokens issued to clients
  okVerifies   \* history: the <<user, code, expiration>> of each verify-otp answered 200

vars == <<users, notes, nextNoteId, now, reqs, reply, outbox, tokens, okVerifies>>

noteVars == <<notes, nextNoteId>>

(***************************************************************************)
(* Bounds of the model.                                                    *)
(***************************************************************************)
MaxReqs == 2
MaxUsers == 2
MaxNotes == 2
MaxTime == 15
NumOtps == 2

(***************************************************************************)
(* Program constants.                                                      *)
(***************************************************************************)
\* minutes the clock advances in one Tick of the model
TickStep == 5
\* 10 * 60 * 1000 ms, in minutes
OtpTtl == 10
\* process.env.JWT_EXPIRES_IN, in minutes (a deployment sets it; '7d' if unset)
JwtExpiresIn == 10
\* Math.floor(100000 + Math.random() * 900000): the smallest code
OtpBase == 100000

Slots == 1..MaxReqs
Times == 0..MaxTime

Undefined == "undefined"
NoDate == -1
NoDoc == [id |-> 0]
NoData == [none |-> TRUE]
NoToken == [kind |-> "none"]
MalformedToken == [kind |-> "malformed"]

(***************************************************************************)
(* Request inputs.                                                         *)
(***************************************************************************)
RawEmails == {"ann@x.io", "Ann@x.io", "bob@x.io"}
Phones == {"111", "222"}
SignupPasswords == {"Secret1!"}
Passwords == SignupPasswords \cup {"Other22!"}

\* the characters of a string
CharAt(str, i) == SubSeq(str, i, i)
CharsOf(str) == {CharAt(str, i) : i \in 1..Len(str)}

UpperCase == "ABCDEFGHIJKLMNOPQRSTUVWXYZ"
LowerCase == "abcdefghijklmnopqrstuvwxyz"
Digits == "0123456789"
Whitespace == {" ", "\t"}

LowerChar(c) ==
  IF c \in CharsOf(UpperCase)
  THEN CharAt(LowerCase, CHOOSE i \in 1..Len(UpperCase) : CharAt(UpperCase, i) = c)
  ELSE c

RECURSIVE LowerCased(_)
LowerCased(e) ==
  IF e = "" THEN "" ELSE LowerChar(Head(e)) \o LowerCased(Tail(e))

RECURSIVE TrimStart(_)
TrimStart(e) ==
  IF e # "" /\ Head(e) \in Whitespace THEN TrimStart(Tail(e)) ELSE e

RECURSIVE TrimEnd(_)
TrimEnd(e) ==
  IF e # "" /\ CharAt(e, Len(e)) \in Whitespace
  THEN TrimEnd(SubSeq(e, 1, Len(e) - 1))
  ELSE e

Trimmed(e) == TrimEnd(TrimStart(e))

\* the strings the requests of the model carry, and what the handlers make
\* of them
\* String.prototype.repeat
RECURSIVE Repeat(_, _)
Repeat(c, n) ==
  IF n = 0 THEN ""
  ELSE IF n % 2 = 0 THEN LET half == Repeat(c, n \div 2) IN half \o half
  ELSE c \o Repeat(c, n - 1)

\* the limits of the note schema and of the routes' validation rules
MaxTitleLength == 100
MaxContentLength == 10000
MaxTags == 10
MaxTagLength == 20

\* the titles, contents and tag lists that the bodies of the model carry:
\* Undefined is a field the body does not have
TitleInputs ==
  {"Groceries", "Plan", " Plan ", Undefined, "", "  ", "No#",
   Repeat("a", MaxTitleLength), Repeat("a", MaxTitleLength + 1)}
ContentInputs == {"text", " ", Repeat("c", MaxContentLength + 1)}
TagListInputs ==
  {<<>>, <<"Work">>, <<"urgent">>, <<"work", "urgent">>, <<"a b">>, <<"">>,
   <<"Work", "no#">>, <<Repeat("t", MaxTagLength + 1)>>,
   [i \in 1..(MaxTags + 1) |-> "t"]}

InputTexts ==
  RawEmails \cup {"Work", "work", "urgent", " Urgent", "Groceries", "Plan", "text"}
           \cup {"", "a", " a ", "  ", "zz", " zz", " Groceries ", "plan text"}
           \cup (TitleInputs \ {Undefined})
           \cup {" ", "a b", "no#", "t", Repeat("t", MaxTagLength + 1)}

Texts ==
  LET one == InputTexts \cup {LowerCased(e) : e \in InputTexts}
                        \cup {Trimmed(e) : e \in InputTexts}
  IN one \cup {LowerCased(e) : e \in one} \cup {Trimmed(e) : e \in one}

LowerCasedTexts == [e \in Texts |-> LowerCased(e)]
TrimmedTexts == [e \in Texts \cup ContentInputs |-> Trimmed(e)]

\* the words of a string: its maximal runs of characters other than whitespace
RECURSIVE Split(_, _)
Split(e, word) ==
  IF e = "" THEN (IF word = "" THEN {} ELSE {word})
  ELSE IF Head(e) \in Whitespace
  THEN (IF word = "" THEN {} ELSE {word}) \cup Split(Tail(e), "")
  ELSE Split(Tail(e), word \o Head(e))

\* the terms the text index keeps of a string, and a $search looks for: its
\* words without their case (stemming and stop words are left out)
TermsOfTexts == [e \in Texts |-> {LowerCased(w) : w \in Split(e, "")}]

\* String.prototype.toLowerCase
ToLowerCase(e) == LowerCasedTexts[e]

\* String.prototype.trim
Trim(e) == TrimmedTexts[e]

\* the route's sanitizers: trim, normalizeEmail, toLowerCase
NormalizeEmail(e) == ToLowerCase(e)

\* the code Math.random() draws: k is the draw
RandomOtp(k) == ToString(OtpBase + k)

GeneratedOtps == {RandomOtp(k) : k \in 0..(NumOtps - 1)}

\* six digits that pass the route's validation; "000000" is never generated
CandidateOtps == GeneratedOtps \cup {"000000"}

\* bcrypt.hash / bcrypt.compare
BcryptHash(pw) == <<"bcrypt", pw>>
BcryptCompare(pw, hash) == hash = BcryptHash(pw)

(***************************************************************************)
(* The users collection: a sequence, _id being the index.                  *)
(***************************************************************************)
UserIds == 1..Len(users)

NewUser(e, p, pw) ==
  [emailAddress |-> ToLowerCase(e),
   phoneNumber |-> p,
   passwordHash |-> pw,
   isEmailVerified |-> FALSE,
   isAccountActive |-> TRUE,
   emailVerificationOtp |-> Undefined,
   otpExpirationTime |-> NoDate,
   lastLoginAt |-> NoDate]

\* User.findOne({emailAddress: email.toLowerCase()}): the _id, 0 when none
FindByEmail(e) ==
  LET hit == {u \in UserIds : users[u].emailAddress = ToLowerCase(e)}
  IN IF hit = {} THEN 0 ELSE CHOOSE u \in hit : \A v \in hit : u <= v

\* User.findOne({phoneNumber: phone})
FindByPhone(p) ==
  LET hit == {u \in UserIds : users[u].phoneNumber = p}
  IN IF hit = {} THEN 0 ELSE CHOOSE u \in hit : \A v \in hit : u <= v

\* the document a query returns: the stored fields and the _id
Load(u) == [id |-> u, rec |-> users[u]]

\* a save that never reaches the store
SaveNothing(doc, paths) == users

\* document.save() of a loaded document: an update by _id that writes the
\* modified paths and no other
SaveUser(doc, paths) ==
  [users EXCEPT ![doc.id] =
     [f \in DOMAIN @ |-> IF f \in paths THEN doc.rec[f] ELSE @[f]]]

\* the unique indexes on emailAddress and phoneNumber: may `rec` be inserted
UniqueIndexNone(rec) == TRUE

UniqueIndexOk(rec) ==
  \A u \in UserIds : /\ users[u].emailAddress # rec.emailAddress
                     /\ users[u].phoneNumber # rec.phoneNumber

\* generateEmailOtp: the document with a fresh code and its expiration
GenerateEmailOtp(rec, k, t) ==
  [rec EXCEPT !.emailVerificationOtp = RandomOtp(k),
              !.otpExpirationTime = t + OtpTtl]

\* a check that rejects the code at the instant of its expiration too
VerifyEmailOtpBeforeExpiry(rec, providedOtp, t) ==
  IF rec.emailVerificationOtp = Undefined \/ rec.otpExpirationTime = NoDate
  THEN FALSE
  ELSE IF t >= rec.otpExpirationTime
  THEN FALSE
  ELSE rec.emailVerificationOtp = providedOtp

\* verifyEmailOtp: the document's check of a provided code at time t
VerifyEmailOtp(rec, providedOtp, t) ==
  IF rec.emailVerificationOtp = Undefined \/ rec.otpExpirationTime = NoDate
  THEN FALSE
  ELSE IF t > rec.otpExpirationTime
  THEN FALSE
  ELSE rec.emailVerificationOtp = providedOtp

\* a markEmailAsVerified that leaves the code and its expiration in place
MarkKeepsOtp(rec) == [rec EXCEPT !.isEmailVerified = TRUE]

\* markEmailAsVerified
MarkEmailAsVerified(rec) ==
  [rec EXCEPT !.isEmailVerified = TRUE,
              !.emailVerificationOtp = Undefined,
              !.otpExpirationTime = NoDate]

\* generateAuthToken: jwt.sign of the payload, expiring JwtExpiresIn later
GenerateAuthToken(doc, t) ==
  [kind |-> "jwt", userId |-> doc.id,
   emailAddress |-> doc.rec.emailAddress,
   isEmailVerified |-> doc.rec.isEmailVerified,
   exp |-> t + JwtExpiresIn]

(***************************************************************************)
(* Requests in flight and their responses.                                 *)
(***************************************************************************)
Response(status, error, message, data) ==
  [status |-> status, error |-> error, message |-> message, data |-> data]

NoResponse == Response(0, "", "", NoData)

IdleReq ==
  [op |-> "idle", pc |-> "done", emailAddress |-> "", phoneNumber |-> "",
   password |-> "", otpCode |-> "", token |-> NoToken, user |-> 0,
   noteId |-> 0, query |-> NoData, body |-> NoData, doc |-> NoDoc]

\* the last response sent: the request it answers and the response
NoReply == [req |-> IdleReq, resp |-> NoResponse]

Idle(s) == reqs[s].pc = "done"

InFlight == {s \in Slots : reqs[s].pc # "done"}

\* the handler of request r, in slot s, answers
Answer(s, r, resp) ==
  /\ reqs' = [reqs EXCEPT ![s] = IdleReq]
  /\ reply' = [req |-> [r EXCEPT !.pc = "done", !.doc = NoDoc], resp |-> resp]

\* a new request in slot s, at most `limit` requests being handled at once
\* the request takes the first idle slot
Accept(s, limit) ==
  /\ Idle(s)
  /\ \A o \in Slots : o < s => ~Idle(o)
  /\ Cardinality(InFlight) < limit

\* the client stores the token of a response, replacing the one it held for
\* the account
StoreToken(tok) == {t \in tokens : t.userId # tok.userId} \cup {tok}

(***************************************************************************)
(* POST /auth/signup: AuthController.registerUser                          *)
(***************************************************************************)
\* the request arrives and User.findByEmail answers
RegisterFindByEmail(s, limit, e, p, pw) ==
  /\ Accept(s, limit)
  /\ LET r == [IdleReq EXCEPT !.op = "signup", !.emailAddress = NormalizeEmail(e),
                              !.phoneNumber = p, !.password = pw]
     IN IF FindByEmail(r.emailAddress) # 0
        THEN Answer(s, r, Response(409, "EMAIL_ALREADY_EXISTS",
               "User with this email address already exists", NoData))
        ELSE /\ reqs' = [reqs EXCEPT ![s] = [r EXCEPT !.pc = "reg_phone"]]
             /\ reply' = reply
  /\ UNCHANGED <<users, noteVars, now, outbox, tokens, okVerifies>>

\* User.findByPhone answers
RegisterFindByPhone(s) ==
  /\ reqs[s].pc = "reg_phone"
  /\ IF FindByPhone(reqs[s].phoneNumber) # 0
     THEN Answer(s, reqs[s], Response(409, "PHONE_ALREADY_EXISTS",
            "User with this phone number already exists", NoData))
     ELSE /\ reqs' = [reqs EXCEPT ![s].pc = "reg_save"]
          /\ reply' = reply
  /\ UNCHANGED <<users, noteVars, now, outbox, tokens, okVerifies>>

\* a signup that removes the user again when the e-mail was not delivered
RegisterSaveRollsBack(s, maxUsers, k, emailSent) ==
  /\ reqs[s].pc = "reg_save"
  /\ LET rec == GenerateEmailOtp(
                  [NewUser(reqs[s].emailAddress, reqs[s].phoneNumber,
                           reqs[s].password)
                     EXCEPT !.passwordHash = BcryptHash(reqs[s].password)],
                  k, now)
     IN IF UniqueIndexOk(rec) /\ emailSent
        THEN /\ Len(users) < maxUsers
             /\ users' = Append(users, rec)
             /\ outbox' = [to |-> rec.emailAddress, kind |-> "otp",
                           otp |-> rec.emailVerificationOtp]
             /\ Answer(s, reqs[s], Response(201, "",
                  "User registered successfully. Please check your email for verification code.",
                  [userId |-> Len(users) + 1,
                   isEmailVerified |-> rec.isEmailVerified,
                   emailSent |-> emailSent]))
        ELSE /\ users' = users
             /\ outbox' = outbox
             /\ Answer(s, reqs[s], Response(500, "REGISTRATION_FAILED",
                  "Internal server error during registration", NoData))
  /\ UNCHANGED <<noteVars, now, tokens, okVerifies>>

\* new User, generateEmailOtp, newUser.save() (the insert; a duplicate key is
\* an exception, which the catch answers with 500), sendOtpEmail, the 201
RegisterSave(s, maxUsers, k, emailSent) ==
  /\ reqs[s].pc = "reg_save"
  /\ LET rec == GenerateEmailOtp(
                  [NewUser(reqs[s].emailAddress, reqs[s].phoneNumber,
                           reqs[s].password)
                     EXCEPT !.passwordHash = BcryptHash(reqs[s].password)],
                  k, now)
     IN IF UniqueIndexOk(rec)
        THEN /\ Len(users) < maxUsers
             /\ users' = Append(users, rec)
             /\ outbox' = IF emailSent
                          THEN [to |-> rec.emailAddress, kind |-> "otp",
                                otp |-> rec.emailVerificationOtp]
                          ELSE outbox
             /\ Answer(s, reqs[s], Response(201, "",
                  "User registered successfully. Please check your email for verification code.",
                  [userId |-> Len(users) + 1,
                   isEmailVerified |-> rec.isEmailVerified,
                   emailSent |-> emailSent]))
        ELSE /\ users' = users
             /\ outbox' = outbox
             /\ Answer(s, reqs[s], Response(500, "REGISTRATION_FAILED",
                  "Internal server error during registration", NoData))
  /\ UNCHANGED <<noteVars, now, tokens, okVerifies>>

(***************************************************************************)
(* POST /auth/verify-otp: AuthController.verifyEmailOtp                    *)
(***************************************************************************)
\* a verify-otp that withdraws the stored code when the check fails
VerifyFindBurnsCode(s, limit, e, c) ==
  /\ Accept(s, limit)
  /\ LET r == [IdleReq EXCEPT !.op = "verify", !.emailAddress = NormalizeEmail(e),
                              !.otpCode = c]
         u == FindByEmail(r.emailAddress)
     IN IF u = 0
        THEN /\ Answer(s, r, Response(404, "USER_NOT_FOUND", "User not found", NoData))
             /\ users' = users
        ELSE IF users[u].isEmailVerified
        THEN /\ Answer(s, r, Response(400, "EMAIL_ALREADY_VERIFIED",
                    "Email is already verified", NoData))
             /\ users' = users
        ELSE IF ~VerifyEmailOtp(users[u], c, now)
        THEN /\ Answer(s, r, Response(400, "INVALID_OTP",
                    "Invalid or expired OTP code", NoData))
             /\ users' = [users EXCEPT ![u].emailVerificationOtp = Undefined,
                                       ![u].otpExpirationTime = NoDate]
        ELSE /\ reqs' = [reqs EXCEPT ![s] =
                  [r EXCEPT !.pc = "ver_save",
                            !.doc = [id |-> u, rec |-> MarkEmailAsVerified(users[u]),
                                     old |-> users[u]]]]
             /\ reply' = reply
             /\ users' = users
  /\ UNCHANGED <<noteVars, now, outbox, tokens, okVerifies>>

\* the request arrives and User.findByEmail answers; the checks on the
\* loaded document, then markEmailAsVerified on it
VerifyFind(s, limit, e, c) ==
  /\ Accept(s, limit)
  /\ LET r == [IdleReq EXCEPT !.op = "verify", !.emailAddress = NormalizeEmail(e),
                              !.otpCode = c]
         u == FindByEmail(r.emailAddress)
     IN IF u = 0
        THEN Answer(s, r, Response(404, "USER_NOT_FOUND", "User not found", NoData))
        ELSE IF users[u].isEmailVerified
        THEN Answer(s, r, Response(400, "EMAIL_ALREADY_VERIFIED",
               "Email is already verified", NoData))
        ELSE IF ~VerifyEmailOtp(users[u], c, now)
        THEN Answer(s, r, Response(400, "INVALID_OTP",
               "Invalid or expired OTP code", NoData))
        ELSE /\ reqs' = [reqs EXCEPT ![s] =
                  [r EXCEPT !.pc = "ver_save",
                            !.doc = [id |-> u, rec |-> MarkEmailAsVerified(users[u]),
                                     old |-> users[u]]]]
             /\ reply' = reply
  /\ UNCHANGED <<users, noteVars, now, outbox, tokens, okVerifies>>

\* user.save(), generateAuthToken, sendWelcomeEmail, the 200
VerifySave(s, emailSent) ==
  /\ reqs[s].pc = "ver_save"
  /\ LET doc == reqs[s].doc
         tok == GenerateAuthToken(doc, now)
     IN /\ users' = SaveUser(doc, {"isEmailVerified", "emailVerificationOtp",
                                   "otpExpirationTime"})
        /\ tokens' = StoreToken(tok)
        /\ outbox' = IF emailSent
                     THEN [to |-> doc.rec.emailAddress, kind |-> "welcome",
                           otp |-> Undefined]
                     ELSE outbox
        /\ okVerifies' = Append(okVerifies, <<doc.id, doc.old.emailVerificationOtp,
                                                doc.old.otpExpirationTime>>)
        /\ Answer(s, reqs[s], Response(200, "",
             "Email verified successfully. Welcome to Notes App!",
             [userId |-> doc.id, isEmailVerified |-> doc.rec.isEmailVerified,
              authToken |-> tok]))
  /\ UNCHANGED <<noteVars, now>>

(***************************************************************************)
(* POST /auth/resend-otp: AuthController.resendOtp                         *)
(***************************************************************************)
\* a resend-otp that does not look at isEmailVerified
ResendFindAnyUser(s, limit, e, k) ==
  /\ Accept(s, limit)
  /\ LET r == [IdleReq EXCEPT !.op = "resend", !.emailAddress = NormalizeEmail(e)]
         u == FindByEmail(r.emailAddress)
     IN IF u = 0
        THEN Answer(s, r, Response(404, "USER_NOT_FOUND", "User not found", NoData))
        ELSE /\ reqs' = [reqs EXCEPT ![s] =
                  [r EXCEPT !.pc = "res_save",
                            !.doc = [id |-> u,
                                     rec |-> GenerateEmailOtp(users[u], k, now)]]]
             /\ reply' = reply
  /\ UNCHANGED <<users, noteVars, now, outbox, tokens, okVerifies>>

\* the request arrives and User.findByEmail answers; generateEmailOtp on the
\* loaded document
ResendFind(s, limit, e, k) ==
  /\ Accept(s, limit)
  /\ LET r == [IdleReq EXCEPT !.op = "resend", !.emailAddress = NormalizeEmail(e)]
         u == FindByEmail(r.emailAddress)
     IN IF u = 0
        THEN Answer(s, r, Response(404, "USER_NOT_FOUND", "User not found", NoData))
        ELSE IF users[u].isEmailVerified
        THEN Answer(s, r, Response(400, "EMAIL_ALREADY_VERIFIED",
               "Email is already verified", NoData))
        ELSE /\ reqs' = [reqs EXCEPT ![s] =
                  [r EXCEPT !.pc = "res_save",
                            !.doc = [id |-> u,
                                     rec |-> GenerateEmailOtp(users[u], k, now)]]]
             /\ reply' = reply
  /\ UNCHANGED <<users, noteVars, now, outbox, tokens, okVerifies>>

\* user.save(), sendOtpEmail, the 200
ResendSave(s, emailSent) ==
  /\ reqs[s].pc = "res_save"
  /\ LET doc == reqs[s].doc
     IN /\ users' = SaveUser(doc, {"emailVerificationOtp", "otpExpirationTime"})
        /\ outbox' = IF emailSent
                     THEN [to |-> doc.rec.emailAddress, kind |-> "otp",
                           otp |-> doc.rec.emailVerificationOtp]
                     ELSE outbox
        /\ Answer(s, reqs[s], Response(200, "",
             "OTP code resent successfully. Please check your email.",
             [emailSent |-> emailSent]))
  /\ UNCHANGED <<noteVars, now, tokens, okVerifies>>

(***************************************************************************)
(* POST /auth/login: AuthController.loginUser                              *)
(***************************************************************************)
\* the request arrives and User.findByEmail answers; the checks, then
\* lastLoginAt = new Date() on the loaded document
LoginFind(s, limit, e, pw) ==
  /\ Accept(s, limit)
  /\ LET r == [IdleReq EXCEPT !.op = "login", !.emailAddress = NormalizeEmail(e),
                              !.password = pw]
         u == FindByEmail(r.emailAddress)
     IN IF u = 0
        THEN Answer(s, r, Response(401, "INVALID_CREDENTIALS",
               "Invalid email or password", NoData))
        ELSE IF ~users[u].isAccountActive
        THEN Answer(s, r, Response(401, "ACCOUNT_DEACTIVATED",
               "Account is deactivated. Please contact support.", NoData))
        ELSE IF ~BcryptCompare(pw, users[u].passwordHash)
        THEN Answer(s, r, Response(401, "INVALID_CREDENTIALS",
               "Invalid email or password", NoData))
        ELSE /\ reqs' = [reqs EXCEPT ![s] =
                  [r EXCEPT !.pc = "login_save",
                            !.doc = [id |-> u,
                                     rec |-> [users[u] EXCEPT !.lastLoginAt = now]]]]
             /\ reply' = reply
  /\ UNCHANGED <<users, noteVars, now, outbox, tokens, okVerifies>>

\* user.save(), generateAuthToken, the 200
LoginSave(s) ==
  /\ reqs[s].pc = "login_save"
  /\ LET doc == reqs[s].doc
         tok == GenerateAuthToken(doc, now)
     IN /\ users' = SaveUser(doc, {"lastLoginAt"})
        /\ tokens' = StoreToken(tok)
        /\ Answer(s, reqs[s], Response(200, "", "Login successful",
             [userId |-> doc.id, isEmailVerified |-> doc.rec.isEmailVerified,
              authToken |-> tok]))
  /\ UNCHANGED <<noteVars, now, outbox, okVerifies>>

(***************************************************************************)
(* authenticateToken, the middleware of every bearer-protected route       *)
(***************************************************************************)
Unauthorized(error, message) == Response(401, error, message, NoData)

\* a middleware whose jwt.verify ignores the expiry of the token
AuthenticateIgnoresExpiry(token, t) ==
  IF token.kind = "none"
  THEN Unauthorized("MISSING_TOKEN", "Access denied. No token provided.")
  ELSE IF token.kind = "malformed"
  THEN Unauthorized("INVALID_TOKEN_FORMAT", "Invalid token format.")
  ELSE IF token.userId \notin UserIds
  THEN Unauthorized("INVALID_TOKEN", "Invalid token. User not found.")
  ELSE IF ~users[token.userId].isAccountActive
  THEN Unauthorized("ACCOUNT_DEACTIVATED",
         "Account is deactivated. Please contact support.")
  ELSE Response(0, "", "next", [id |-> token.userId])

\* a middleware that trusts the token and skips the isAccountActive re-check
AuthenticateNoActiveCheck(token, t) ==
  IF token.kind = "none"
  THEN Unauthorized("MISSING_TOKEN", "Access denied. No token provided.")
  ELSE IF token.kind = "malformed"
  THEN Unauthorized("INVALID_TOKEN_FORMAT", "Invalid token format.")
  ELSE IF t >= token.exp
  THEN Unauthorized("TOKEN_EXPIRED", "Token has expired. Please login again.")
  ELSE IF token.userId \notin UserIds
  THEN Unauthorized("INVALID_TOKEN", "Invalid token. User not found.")
  ELSE Response(0, "", "next", [id |-> token.userId])

\* what the middleware does with the Authorization header at time t: a 401,
\* or next() (status 0) with req.user.id in data
AuthenticateToken(token, t) ==
  IF token.kind = "none"
  THEN Unauthorized("MISSING_TOKEN", "Access denied. No token provided.")
  ELSE IF token.kind = "malformed"
  THEN Unauthorized("INVALID_TOKEN_FORMAT", "Invalid token format.")
  ELSE IF t >= token.exp
  THEN Unauthorized("TOKEN_EXPIRED", "Token has expired. Please login again.")
  ELSE IF token.userId \notin UserIds
  THEN Unauthorized("INVALID_TOKEN", "Invalid token. User not found.")
  ELSE IF ~users[token.userId].isAccountActive
  THEN Unauthorized("ACCOUNT_DEACTIVATED",
         "Account is deactivated. Please contact support.")
  ELSE Response(0, "", "next", [id |-> token.userId])

\* the Authorization headers a client may send
Presentable == tokens \cup {NoToken, MalformedToken}

\* the headers the middleware refuses whatever the user: none, a malformed
\* token, a token past its expiry
Unusable == {NoToken, MalformedToken} \cup {t \in tokens : now >= t.exp}

(***************************************************************************)
(* The notes collection.                                                   *)
(***************************************************************************)
NoteIds == DOMAIN notes

\* the ids a request may name: those the store has handed out or will
NoteIdInputs == 1..MaxNotes

CreateTitles == {"Groceries"}
Contents == {"text"}
TagLists == {<<>>}

\* a new note whose tags keep the case of the request
NewNoteKeepsCase(title, content, tags, owner, t) ==
  [noteTitle |-> title,
   noteContent |-> content,
   noteTags |-> tags,
   noteOwner |-> owner,
   isNoteArchived |-> FALSE,
   isNotePinned |-> FALSE,
   noteCreatedAt |-> t,
   noteUpdatedAt |-> t]

\* new Note({...}) in createNote, with the schema's defaults
NewNote(title, content, tags, owner, t) ==
  [noteTitle |-> title,
   noteContent |-> content,
   noteTags |-> [i \in DOMAIN tags |-> Trim(ToLowerCase(tags[i]))],
   noteOwner |-> owner,
   isNoteArchived |-> FALSE,
   isNotePinned |-> FALSE,
   noteCreatedAt |-> t,
   noteUpdatedAt |-> t]

\* a lookup by _id that forgets the owner
FindByIdOnly(noteId, userId) ==
  IF noteId \in NoteIds THEN noteId ELSE 0

\* Note.findByIdAndUserId: findOne({_id: noteId, noteOwner: userId}); 0 is null
\* a noteId parameter that is not a 24-digit hexadecimal ObjectId, as "abc"
MalformedNoteId == -1

\* param("noteId").isMongoId()
IsMongoId(noteId) == noteId # MalformedNoteId

FindByIdAndUserId(noteId, userId) ==
  IF noteId \in NoteIds /\ notes[noteId].noteOwner = userId THEN noteId ELSE 0

LoadNote(n) == [id |-> n, rec |-> notes[n]]

\* the paths of the loaded document that the handler's assignments changed
Modified(doc, n) == {f \in DOMAIN doc.rec : doc.rec[f] # n.rec[f]}

\* the pre-save hook: a modified document gets noteUpdatedAt = new Date()
PreSave(old, new, t) ==
  IF Modified(old, new) # {}
  THEN [new EXCEPT !.rec.noteUpdatedAt = t]
  ELSE new

\* document.save(): an update by _id of the modified paths
SaveNote(old, new) ==
  [notes EXCEPT ![new.id] =
     [f \in DOMAIN @ |-> IF f \in Modified(old, new) THEN new.rec[f] ELSE @[f]]]

NotFound == Response(404, "NOTE_NOT_FOUND", "Note not found or access denied", NoData)

\* a request of a bearer-protected route arrives in slot s; nothing but the
\* notes collection, the slot and the response is touched
Arrive(s, limit) ==
  /\ Accept(s, limit)
  /\ UNCHANGED <<users, now, outbox, tokens, okVerifies>>

\* the middleware answers request r itself, with a 401
Refuses(r) == AuthenticateToken(r.token, now).status # 0

Refuse(s, r) ==
  /\ Answer(s, r, AuthenticateToken(r.token, now))
  /\ UNCHANGED noteVars

\* the middleware sets req.user and calls next()
Authenticated(r) == [r EXCEPT !.user = AuthenticateToken(r.token, now).data.id]

(***************************************************************************)
(* GET /auth/me: AuthController.getCurrentUser                             *)
(***************************************************************************)
GetCurrentUser(s, limit, tok) ==
  LET req == [IdleReq EXCEPT !.op = "me", !.token = tok]
      r == Authenticated(req)
  IN /\ Arrive(s, limit)
     /\ IF Refuses(req) THEN Refuse(s, req)
        ELSE
        /\ Answer(s, r, Response(200, "", "User profile retrieved successfully",
             [userId |-> r.user, isEmailVerified |-> users[r.user].isEmailVerified]))
        /\ UNCHANGED noteVars

(***************************************************************************)
(* The validation rules of the notes routes.                               *)
(***************************************************************************)
Letters == CharsOf(UpperCase) \cup CharsOf(LowerCase)

\* /^[a-zA-Z0-9\s\-_.,!?()]+$/ and /^[a-zA-Z0-9\-]+$/
TitleChars ==
  Letters \cup CharsOf(Digits) \cup Whitespace \cup {"-", "_", ".", ",", "!", "?", "(", ")"}
TagChars == Letters \cup CharsOf(Digits) \cup {"-"}

\* .matches(/^[class]+$/)
Matches(str, class) == str # "" /\ CharsOf(str) \subseteq class

\* the error a failed validator adds to the result
Err(failed, field, message) ==
  IF failed THEN <<[field |-> field, message |-> message]>> ELSE <<>>

\* noteIdValidationRules: the error the chain records on the request
NoteIdRuleErrors(noteId) == Err(~IsMongoId(noteId), "noteId", "Invalid note ID format")

\* the .trim() sanitizer of a chain: a missing field becomes ""
Sanitized(raw) == IF raw = Undefined THEN "" ELSE Trim(raw)

\* body("noteTitle").trim().notEmpty().isLength(...).matches(...)
TitleErrors(raw) ==
  LET t == Sanitized(raw)
  IN Err(t = "", "noteTitle", "Note title is required")
       \o Err(Len(t) < 1 \/ Len(t) > MaxTitleLength, "noteTitle",
              "Note title must be between 1 and 100 characters")
       \o Err(~Matches(t, TitleChars), "noteTitle",
              "Note title contains invalid characters")

\* body("noteContent").trim().notEmpty().isLength(...)
ContentErrors(raw) ==
  LET c == Sanitized(raw)
  IN Err(c = "", "noteContent", "Note content is required")
       \o Err(Len(c) < 1 \/ Len(c) > MaxContentLength, "noteContent",
              "Note content must be between 1 and 10,000 characters")

\* a custom validator that looks at the number of tags only
TagErrorsCountOnly(tags) ==
  Err(Len(tags) > MaxTags, "noteTags", "Maximum 10 tags allowed")

\* body("noteTags").optional().isArray().custom(...): the custom validator
\* throws at the first tag that fails
TagErrors(tags) ==
  LET bad == {i \in DOMAIN tags :
                \/ Len(tags[i]) < 1 \/ Len(tags[i]) > MaxTagLength
                \/ ~Matches(tags[i], TagChars)}
      first == CHOOSE i \in bad : \A j \in bad : i <= j
  IN IF Len(tags) > MaxTags
     THEN Err(TRUE, "noteTags", "Maximum 10 tags allowed")
     ELSE IF bad = {} THEN <<>>
     ELSE IF Len(tags[first]) < 1 \/ Len(tags[first]) > MaxTagLength
     THEN Err(TRUE, "noteTags", "Each tag must be 1-20 characters long")
     ELSE Err(TRUE, "noteTags", "Tags can only contain letters, numbers, and hyphens")

\* the results of the chains on the fields of the model
TitleChecks == [t \in TitleInputs |-> TitleErrors(t)]
ContentChecks == [c \in ContentInputs |-> ContentErrors(c)]
TagChecks == [g \in TagListInputs |-> TagErrors(g)]

\* validationResult(req) after createNoteValidationRules
CreateNoteErrors(title, content, tags) ==
  TitleChecks[title] \o ContentChecks[content] \o TagChecks[tags]

\* body("noteTitle").optional().trim().isLength(...).matches(...)
UpdateTitleErrors(raw) ==
  Err(Len(Trim(raw)) < 1 \/ Len(Trim(raw)) > MaxTitleLength, "noteTitle",
      "Note title must be between 1 and 100 characters")
    \o Err(~Matches(Trim(raw), TitleChars), "noteTitle",
           "Note title contains invalid characters")

\* body("noteContent").optional().trim().isLength(...)
UpdateContentErrors(raw) ==
  Err(Len(Trim(raw)) < 1 \/ Len(Trim(raw)) > MaxContentLength, "noteContent",
      "Note content must be between 1 and 10,000 characters")

UpdateTitleChecks == [t \in TitleInputs \ {Undefined} |-> UpdateTitleErrors(t)]
UpdateContentChecks == [c \in ContentInputs |-> UpdateContentErrors(c)]

\* validationResult(req) after updateNoteValidationRules, for a well-formed
\* noteId and boolean flags
UpdateNoteErrors(b) ==
  (IF "noteTitle" \in DOMAIN b THEN UpdateTitleChecks[b.noteTitle] ELSE <<>>)
    \o (IF "noteContent" \in DOMAIN b THEN UpdateContentChecks[b.noteContent] ELSE <<>>)
    \o (IF "noteTags" \in DOMAIN b THEN TagChecks[b.noteTags] ELSE <<>>)

\* the 400 of a handler whose validationResult is not empty
ValidationFailed(errors) ==
  [status |-> 400, error |-> "", message |-> "Validation failed", data |-> NoData,
   errors |-> errors]

(***************************************************************************)
(* POST /notes: NoteController.createNote                                  *)
(***************************************************************************)
\* validationResult and its 400; new Note, newNote.save(), the 201
CreateNote(s, limit, tok, title, content, tags) ==
  LET req == [IdleReq EXCEPT !.op = "create", !.token = tok,
                !.body = [noteTitle |-> title, noteContent |-> content,
                        noteTags |-> tags]]
      r == Authenticated(req)
  IN /\ Arrive(s, limit)
     /\ IF Refuses(req) THEN Refuse(s, req)
        ELSE
        IF CreateNoteErrors(title, content, tags) # <<>>
        THEN /\ Answer(s, r, ValidationFailed(CreateNoteErrors(title, content, tags)))
             /\ UNCHANGED noteVars
        ELSE
        LET rec == NewNote(Trim(title), Trim(content), tags, r.user, now)
        IN /\ nextNoteId <= MaxNotes
           /\ notes' = (nextNoteId :> rec) @@ notes
           /\ nextNoteId' = nextNoteId + 1
           /\ Answer(s, r, Response(201, "", "Note created successfully",
                [note |-> [id |-> nextNoteId, rec |-> rec]]))

(***************************************************************************)
(* GET /notes: NoteController.getAllNotes                                  *)
(***************************************************************************)
\* the raw includeArchived query parameter
ArchivedParams == {"absent", "true", "false"}

\* the destructuring default: includeArchived = false (the boolean) when absent
ParamOrFalse(raw) == IF raw = "absent" THEN "false-boolean" ELSE raw

\* the destructuring default of limit
DefaultLimit == 50

\* req.query: `tag` is "" when absent, `tags` is the list tags.split(",")
\* gives, empty when absent; `limit` and `skip` are <<>> when absent, <<k>>
\* when the parameter reads k
Query(archived, filter, window) ==
  [includeArchived |-> archived, tag |-> filter[1], tags |-> filter[2],
   limit |-> window[1], skip |-> window[2]]

\* no tag and no tags parameter; no limit and no skip parameter
NoFilter == <<"", <<>>>>
NoWindow == <<<<>>, <<>>>>

\* a query string without tag, tags, limit or skip
DefaultQuery(archived) == Query(archived, NoFilter, NoWindow)

\* parseInt(limit), parseInt(skip) with their defaults
ParsedLimit(q) == IF q.limit = <<>> THEN DefaultLimit ELSE q.limit[1]
ParsedSkip(q) == IF q.skip = <<>> THEN 0 ELSE q.skip[1]

\* tagFilters: [tag.toLowerCase().trim()], else tags.split(",").map(...)
TagFilters(q) ==
  IF q.tag # ""
  THEN <<Trim(ToLowerCase(q.tag))>>
  ELSE [i \in DOMAIN q.tags |-> Trim(ToLowerCase(q.tags[i]))]

\* the largest limit the rule of the query parameter allows
MaxLimit == 100

\* .isBoolean() of a query parameter
BooleanParams == {"true", "false", "1", "0"}

\* queryValidationRules: the errors the chains record on the request, every
\* parameter being optional
QueryRuleErrors(q) ==
  Err(q.limit # <<>> /\ q.limit[1] \notin 1..MaxLimit,
      "limit", "Limit must be between 1 and 100")
  \o Err(q.skip # <<>> /\ q.skip[1] < 0,
         "skip", "Skip must be a non-negative integer")
  \o Err(q.includeArchived # "absent" /\ q.includeArchived \notin BooleanParams,
         "includeArchived", "includeArchived must be a boolean value")
  \o Err(q.tag # "" /\ Len(q.tag) > MaxTagLength,
         "tag", "Tag must be between 1 and 20 characters")
  \o Err(q.tag # "" /\ ~Matches(q.tag, TagChars),
         "tag", "Tag can only contain letters, numbers, and hyphens")
  \o Err(\/ Len(q.tags) > MaxTags
         \/ \E i \in DOMAIN q.tags :
              \/ Len(q.tags[i]) < 1
              \/ Len(q.tags[i]) > MaxTagLength
              \/ ~Matches(q.tags[i], TagChars),
         "tags", "Invalid value")

\* options that always include the archived notes
QueryOptionsAllArchived(q) ==
  [limit |-> ParsedLimit(q), skip |-> ParsedSkip(q), includeArchived |-> TRUE,
   tags |-> TagFilters(q)]

\* the options getAllNotes builds
QueryOptions(q) ==
  [limit |-> ParsedLimit(q),
   skip |-> ParsedSkip(q),
   includeArchived |-> (ParamOrFalse(q.includeArchived) = "true"),
   tags |-> TagFilters(q)]

\* {noteTags: {$all: tags}}: the document carries every one of the tags
TagsAll(rec, tags) ==
  \A j \in DOMAIN tags : \E i \in DOMAIN rec.noteTags : rec.noteTags[i] = tags[j]

\* {noteTags: {$in: tags}}: the document carries one of the tags
TagsIn(rec, tags) ==
  \E i \in DOMAIN rec.noteTags, j \in DOMAIN tags : rec.noteTags[i] = tags[j]

\* a query that forgets the owner
MatchAnyOwner(userId, options) ==
  {n \in NoteIds :
     /\ Len(options.tags) > 0 => TagsIn(notes[n], options.tags)
     /\ options.includeArchived = FALSE => ~notes[n].isNoteArchived}

\* the documents Note.findByUserId's query matches
MatchByUserId(userId, options) ==
  {n \in NoteIds :
     /\ notes[n].noteOwner = userId
     /\ Len(options.tags) > 0 => TagsIn(notes[n], options.tags)
     /\ options.includeArchived = FALSE => ~notes[n].isNoteArchived}

\* a sort by creation time alone
SortsByCreation(a, b) ==
  notes[a].noteCreatedAt >= notes[b].noteCreatedAt

\* .sort({isNotePinned: -1, noteCreatedAt: -1}): may a come before b
SortsBefore(a, b) ==
  \/ notes[a].isNotePinned /\ ~notes[b].isNotePinned
  \/ /\ notes[a].isNotePinned = notes[b].isNotePinned
     /\ notes[a].noteCreatedAt >= notes[b].noteCreatedAt

\* the orders the store may return a set of documents in
SortedOrders(ids) ==
  {sq \in [1..Cardinality(ids) -> ids] :
     /\ \A i, j \in DOMAIN sq : i # j => sq[i] # sq[j]
     /\ \A i, j \in DOMAIN sq : i < j => SortsBefore(sq[i], sq[j])}

\* .limit(options.limit || 50).skip(options.skip || 0) of an ordered result
Page(sq, limit, skip) ==
  [i \in 1..(IF Len(sq) - skip < 0 THEN 0
             ELSE IF Len(sq) - skip < limit THEN Len(sq) - skip ELSE limit)
     |-> sq[i + skip]]

\* Note.findByUserId(userId, options) answers
ListFind(s, limit, tok, query) ==
  LET req == [IdleReq EXCEPT !.op = "list", !.token = tok, !.query = query]
      r == Authenticated(req)
  IN /\ Arrive(s, limit)
     /\ IF Refuses(req) THEN Refuse(s, req)
        ELSE
        LET options == QueryOptions(r.query)
            lim == IF options.limit = 0 THEN DefaultLimit ELSE options.limit
        IN /\ \E sq \in SortedOrders(MatchByUserId(r.user, options)) :
                reqs' = [reqs EXCEPT ![s] =
                  [r EXCEPT !.pc = "list_count",
                     !.doc = [id |-> 0,
                              notes |-> [i \in DOMAIN Page(sq, lim, options.skip)
                                          |-> LoadNote(Page(sq, lim, options.skip)[i])]]]]
           /\ UNCHANGED <<noteVars, reply>>

\* the filter of Note.countDocuments({...}) in getAllNotes
CountFilter(userId, q) ==
  {n \in NoteIds :
     /\ notes[n].noteOwner = userId
     /\ Len(TagFilters(q)) > 0 => TagsIn(notes[n], TagFilters(q))
     /\ ParamOrFalse(q.includeArchived) = "false" => ~notes[n].isNoteArchived}

\* Note.countDocuments({...}) answers; the 200
ListCount(s) ==
  /\ reqs[s].pc = "list_count"
  /\ LET q == reqs[s].query
         total == Cardinality(CountFilter(reqs[s].user, q))
     IN Answer(s, reqs[s], Response(200, "", "Notes retrieved successfully",
          [notes |-> reqs[s].doc.notes,
           total |-> total,
           hasMore |-> (ParsedSkip(q) + ParsedLimit(q) < total)]))
  /\ UNCHANGED <<users, noteVars, now, outbox, tokens, okVerifies>>

(***************************************************************************)
(* GET /notes/search: NoteController.searchNotes                           *)
(***************************************************************************)
\* the q parameters of the model; Undefined when the parameter is absent
SearchParams == {Undefined, "", "a", " a ", "  ", "zz", " zz", "text", " Groceries ",
                 "plan text"}

\* the destructuring default of limit in searchNotes
SearchDefaultLimit == 20

\* a check of the length that forgets to trim
InvalidSearchQueryUntrimmed(q) ==
  q = Undefined \/ q = "" \/ Len(q) < 2

\* !searchQuery || searchQuery.trim().length < 2
InvalidSearchQuery(q) ==
  q = Undefined \/ q = "" \/ Len(Trim(q)) < 2

\* $text: {$search: ...}: the document's title or content has one of the terms
TextMatches(rec, search) ==
  TermsOfTexts[search]
    \cap (TermsOfTexts[rec.noteTitle] \cup TermsOfTexts[rec.noteContent]) # {}

\* the documents the query of searchNotes matches
MatchSearch(userId, search) ==
  {n \in NoteIds :
     /\ notes[n].noteOwner = userId
     /\ TextMatches(notes[n], search)
     /\ ~notes[n].isNoteArchived}

\* {$meta: "textScore"} with the weights of the index: a term found in the
\* title counts 10, in the content 5
TextScore(rec, search) ==
  (IF TermsOfTexts[search] \cap TermsOfTexts[rec.noteTitle] # {} THEN 10 ELSE 0)
    + (IF TermsOfTexts[search] \cap TermsOfTexts[rec.noteContent] # {} THEN 5 ELSE 0)

\* .sort({score: {$meta: "textScore"}, noteCreatedAt: -1}): may a come before b
SearchSortsBefore(a, b, search) ==
  \/ TextScore(notes[a], search) > TextScore(notes[b], search)
  \/ /\ TextScore(notes[a], search) = TextScore(notes[b], search)
     /\ notes[a].noteCreatedAt >= notes[b].noteCreatedAt

SearchOrders(ids, search) ==
  {sq \in [1..Cardinality(ids) -> ids] :
     /\ \A i, j \in DOMAIN sq : i # j => sq[i] # sq[j]
     /\ \A i, j \in DOMAIN sq : i < j => SearchSortsBefore(sq[i], sq[j], search)}

\* the check of the query; Note.find({...}) answers
SearchFind(s, limit, tok, q) ==
  LET req == [IdleReq EXCEPT !.op = "search", !.token = tok,
                !.query = [q |-> q, limit |-> <<>>, skip |-> <<>>]]
      r == Authenticated(req)
  IN /\ Arrive(s, limit)
     /\ IF Refuses(req) THEN Refuse(s, req)
        ELSE IF InvalidSearchQuery(q)
        THEN /\ Answer(s, r, Response(400, "INVALID_SEARCH_QUERY",
                    "Search query must be at least 2 characters long", NoData))
             /\ UNCHANGED noteVars
        ELSE /\ \E sq \in SearchOrders(MatchSearch(r.user, Trim(q)), Trim(q)) :
                  reqs' = [reqs EXCEPT ![s] =
                    [r EXCEPT !.pc = "search_count",
                       !.doc = [id |-> 0,
                                notes |-> [i \in DOMAIN Page(sq, SearchDefaultLimit, 0)
                                            |-> LoadNote(Page(sq, SearchDefaultLimit, 0)[i])]]]]
             /\ UNCHANGED <<noteVars, reply>>

\* Note.countDocuments({...}) answers; the 200
SearchCount(s) ==
  /\ reqs[s].pc = "search_count"
  /\ LET search == Trim(reqs[s].query.q)
         total == Cardinality(MatchSearch(reqs[s].user, search))
     IN Answer(s, reqs[s], Response(200, "", "Search completed successfully",
          [notes |-> reqs[s].doc.notes,
           searchQuery |-> search,
           total |-> total,
           hasMore |-> (0 + SearchDefaultLimit < total)]))
  /\ UNCHANGED <<users, noteVars, now, outbox, tokens, okVerifies>>

(***************************************************************************)
(* GET /notes/:noteId: NoteController.getNoteById                          *)
(***************************************************************************)
GetNoteById(s, limit, tok, noteId) ==
  LET req == [IdleReq EXCEPT !.op = "get", !.token = tok, !.noteId = noteId]
      r == Authenticated(req)
  IN /\ Arrive(s, limit)
     /\ IF Refuses(req) THEN Refuse(s, req)
        ELSE
        LET n == FindByIdAndUserId(r.noteId, r.user)
        IN /\ IF ~IsMongoId(r.noteId)
              THEN \* the query's cast of _id throws; the catch answers
                   Answer(s, r, Response(500, "NOTE_RETRIEVAL_FAILED",
                     "Internal server error while retrieving note", NoData))
              ELSE IF n = 0
              THEN Answer(s, r, NotFound)
              ELSE Answer(s, r, Response(200, "", "Note retrieved successfully",
                     [note |-> LoadNote(n)]))
           /\ UNCHANGED noteVars

(***************************************************************************)
(* PUT /notes/:noteId: NoteController.updateNote                           *)
(***************************************************************************)
\* the request bodies of the model: each a partial set of fields
UpdateBodies ==
  {[noteTitle |-> "Plan"],
   [noteTags |-> <<"Work">>],
   [isNotePinned |-> TRUE, isNoteArchived |-> FALSE]}

\* the fields of a note that a request body of updateNote may carry
BodyFields == {"noteTitle", "noteContent", "noteTags", "isNotePinned", "isNoteArchived"}

\* an update that replaces the note: a field the body omits gets its default
ReplaceByBody(rec, b) ==
  [f \in DOMAIN rec |->
     IF f \in DOMAIN b
     THEN IF f = "noteTags" THEN [i \in DOMAIN b[f] |-> Trim(ToLowerCase(b[f][i]))]
          ELSE IF f \in {"noteTitle", "noteContent"} THEN Trim(b[f])
          ELSE b[f]
     ELSE IF f \in BodyFields
          THEN NewNote("", "", <<>>, rec.noteOwner, 0)[f]
          ELSE rec[f]]

\* the handler's assignments: each field present in the body
ApplyBody(rec, b) ==
  [f \in DOMAIN rec |->
     IF f \in DOMAIN b
     THEN IF f = "noteTags" THEN [i \in DOMAIN b[f] |-> Trim(ToLowerCase(b[f][i]))]
          ELSE IF f \in {"noteTitle", "noteContent"} THEN Trim(b[f])
          ELSE b[f]
     ELSE rec[f]]

\* toggles that set the flag instead of flipping it
AssignedSetsFlag(rec, r) ==
  CASE r.op = "update" -> ApplyBody(rec, r.body)
    [] r.op = "pin" -> [rec EXCEPT !.isNotePinned = TRUE]
    [] OTHER -> [rec EXCEPT !.isNoteArchived = TRUE]

\* the handler's assignments to the document it loaded
Assigned(rec, r) ==
  CASE r.op = "update" -> ApplyBody(rec, r.body)
    [] r.op = "pin" -> [rec EXCEPT !.isNotePinned = ~rec.isNotePinned]
    [] OTHER -> [rec EXCEPT !.isNoteArchived = ~rec.isNoteArchived]

\* the catch of updateNote, toggleNotePin, toggleNoteArchive
SaveFailed(op) ==
  CASE op = "update" ->
         Response(500, "NOTE_UPDATE_FAILED",
                  "Internal server error while updating note", NoData)
    [] op = "pin" ->
         Response(500, "PIN_TOGGLE_FAILED",
                  "Internal server error while toggling note pin", NoData)
    [] OTHER ->
         Response(500, "ARCHIVE_TOGGLE_FAILED",
                  "Internal server error while toggling note archive", NoData)

\* findByIdAndUserId answers, or its cast of _id throws and the catch answers;
\* then the handler's assignments to the loaded
\* document and the pre-save hook of the save it calls
FindAndModify(s, r) ==
  LET n == FindByIdAndUserId(r.noteId, r.user)
  IN /\ IF ~IsMongoId(r.noteId)
        THEN Answer(s, r, SaveFailed(r.op))
        ELSE IF n = 0
        THEN Answer(s, r, NotFound)
        ELSE /\ reqs' = [reqs EXCEPT ![s] =
                  [r EXCEPT !.pc = "save",
                     !.doc = [id |-> n, old |-> notes[n],
                              rec |-> PreSave(LoadNote(n),
                                        [id |-> n, rec |-> Assigned(notes[n], r)],
                                        now).rec]]]
             /\ reply' = reply
     /\ UNCHANGED noteVars

UpdateFind(s, limit, tok, noteId, b) ==
  LET req == [IdleReq EXCEPT !.op = "update", !.token = tok, !.noteId = noteId, !.body = b]
      r == Authenticated(req)
  IN /\ Arrive(s, limit)
     /\ IF Refuses(req) THEN Refuse(s, req)
        ELSE IF NoteIdRuleErrors(noteId) \o UpdateNoteErrors(b) # <<>>
        THEN /\ Answer(s, r, ValidationFailed(NoteIdRuleErrors(noteId)
                                                \o UpdateNoteErrors(b)))
             /\ UNCHANGED noteVars
        ELSE FindAndModify(s, r)

\* the 200 of updateNote, toggleNotePin, toggleNoteArchive
Saved(op, doc) ==
  Response(200, "",
    CASE op = "update" -> "Note updated successfully"
      [] op = "pin" -> IF doc.rec.isNotePinned THEN "Note pinned successfully"
                       ELSE "Note unpinned successfully"
      [] OTHER -> IF doc.rec.isNoteArchived THEN "Note archived successfully"
                  ELSE "Note unarchived successfully",
    [note |-> doc])

\* note.save() answers: the update by _id, or DocumentNotFoundError when the
\* document is gone, which the catch answers with 500; then the 200
SaveAndAnswer(s) ==
  /\ reqs[s].pc = "save"
  /\ LET doc == reqs[s].doc
         old == [id |-> doc.id, rec |-> doc.old]
         new == [id |-> doc.id, rec |-> doc.rec]
     IN IF doc.id \notin NoteIds /\ Modified(old, new) # {}
        THEN /\ notes' = notes
             /\ Answer(s, reqs[s], SaveFailed(reqs[s].op))
        ELSE /\ notes' = IF Modified(old, new) # {} THEN SaveNote(old, new) ELSE notes
             /\ Answer(s, reqs[s], Saved(reqs[s].op, new))
  /\ UNCHANGED <<users, nextNoteId, now, outbox, tokens, okVerifies>>

(***************************************************************************)
(* DELETE /notes/:noteId: NoteController.deleteNote                        *)
(***************************************************************************)
\* Note.findOneAndDelete({_id: noteId, noteOwner: userId}) answers
DeleteNote(s, limit, tok, noteId) ==
  LET req == [IdleReq EXCEPT !.op = "delete", !.token = tok, !.noteId = noteId]
      r == Authenticated(req)
  IN /\ Arrive(s, limit)
     /\ IF Refuses(req) THEN Refuse(s, req)
        ELSE
        LET n == FindByIdAndUserId(r.noteId, r.user)
        IN /\ IF ~IsMongoId(r.noteId)
              THEN \* the query's cast of _id throws; the catch answers
                   /\ notes' = notes
                   /\ Answer(s, r, Response(500, "NOTE_DELETION_FAILED",
                        "Internal server error while deleting note", NoData))
              ELSE IF n = 0
              THEN /\ notes' = notes
                   /\ Answer(s, r, NotFound)
              ELSE /\ notes' = [i \in NoteIds \ {n} |-> notes[i]]
                   /\ Answer(s, r, Response(200, "", "Note deleted successfully",
                        [deletedNote |-> [id |-> n, title |-> notes[n].noteTitle]]))
           /\ UNCHANGED nextNoteId

(***************************************************************************)
(* PATCH /notes/:noteId/pin and /archive                                   *)
(***************************************************************************)
TogglePinFind(s, limit, tok, noteId) ==
  LET req == [IdleReq EXCEPT !.op = "pin", !.token = tok, !.noteId = noteId]
      r == Authenticated(req)
  IN /\ Arrive(s, limit)
     /\ IF Refuses(req) THEN Refuse(s, req) ELSE FindAndModify(s, r)

ToggleArchiveFind(s, limit, tok, noteId) ==
  LET req == [IdleReq EXCEPT !.op = "archive", !.token = tok, !.noteId = noteId]
      r == Authenticated(req)
  IN /\ Arrive(s, limit)
     /\ IF Refuses(req) THEN Refuse(s, req) ELSE FindAndModify(s, r)

(***************************************************************************)
(* GET /notes/stats: NoteController.getNoteStats                           *)
(***************************************************************************)
\* the notes the $match stage of both aggregations keeps
OwnedBy(userId) == {n \in NoteIds : notes[n].noteOwner = userId}

\* {$sum: {$size: "$noteTags"}} over a set of notes
RECURSIVE SumOfSizes(_)
SumOfSizes(ids) ==
  IF ids = {} THEN 0
  ELSE LET n == CHOOSE n \in ids : TRUE
       IN Len(notes[n].noteTags) + SumOfSizes(ids \ {n})

\* statistics that count each tag of the owner once
StatsOfDistinctTags(userId) ==
  IF {n \in NoteIds : notes[n].noteOwner = userId} = {} THEN <<>>
  ELSE <<[id |-> "null",
          totalNotes |-> Cardinality({n \in NoteIds : notes[n].noteOwner = userId}),
          pinnedNotes |-> Cardinality({n \in NoteIds :
                            notes[n].noteOwner = userId /\ notes[n].isNotePinned}),
          archivedNotes |-> Cardinality({n \in NoteIds :
                              notes[n].noteOwner = userId /\ notes[n].isNoteArchived}),
          totalTags |-> Cardinality({g \in {"work", "urgent"} :
                          \E n \in NoteIds :
                            /\ notes[n].noteOwner = userId
                            /\ \E i \in DOMAIN notes[n].noteTags :
                                 notes[n].noteTags[i] = g})]>>

\* Note.getUserNoteStats: the $group stage yields one document, none when no
\* note matches
GetUserNoteStats(userId) ==
  IF OwnedBy(userId) = {} THEN <<>>
  ELSE <<[id |-> "null",
          totalNotes |-> Cardinality(OwnedBy(userId)),
          pinnedNotes |-> Cardinality({n \in OwnedBy(userId) : notes[n].isNotePinned}),
          archivedNotes |-> Cardinality({n \in OwnedBy(userId) : notes[n].isNoteArchived}),
          totalTags |-> SumOfSizes(OwnedBy(userId))]>>

\* the statistics getNoteStats answers when the aggregation yields nothing
ZeroStats == [totalNotes |-> 0, pinnedNotes |-> 0, archivedNotes |-> 0, totalTags |-> 0]

\* the limit getNoteStats passes to getPopularTags
PopularTagsLimit == 10

\* $unwind, $group by tag, $sum: 1: the occurrences of a tag in the owner's notes
TagOccurrences(userId, tag) ==
  Cardinality({p \in OwnedBy(userId) \X (1..10) :
                 /\ p[2] \in DOMAIN notes[p[1]].noteTags
                 /\ notes[p[1]].noteTags[p[2]] = tag})

\* the tags of the owner's notes
TagsOf(userId) ==
  {notes[p[1]].noteTags[p[2]] :
     p \in {x \in OwnedBy(userId) \X (1..10) : x[2] \in DOMAIN notes[x[1]].noteTags}}

\* Note.getPopularTags: {$sort: {count: -1}} leaves tags of equal count in any
\* order; then $limit and $project
GetPopularTags(userId, limit) ==
  {[i \in 1..(IF Len(sq) < limit THEN Len(sq) ELSE limit)
      |-> [tag |-> sq[i], count |-> TagOccurrences(userId, sq[i])]] :
   sq \in {o \in [1..Cardinality(TagsOf(userId)) -> TagsOf(userId)] :
             /\ \A i, j \in DOMAIN o : i # j => o[i] # o[j]
             /\ \A i, j \in DOMAIN o :
                  i < j => TagOccurrences(userId, o[i]) >= TagOccurrences(userId, o[j])}}

\* Note.getUserNoteStats(userId) answers
StatsFind(s, limit, tok) ==
  LET req == [IdleReq EXCEPT !.op = "stats", !.token = tok]
      r == Authenticated(req)
  IN /\ Arrive(s, limit)
     /\ IF Refuses(req) THEN Refuse(s, req)
        ELSE /\ reqs' = [reqs EXCEPT ![s] =
                  [r EXCEPT !.pc = "stats_tags",
                            !.doc = [id |-> 0, stats |-> GetUserNoteStats(r.user)]]]
             /\ UNCHANGED <<noteVars, reply>>

\* Note.getPopularTags(userId, 10) answers; the 200
StatsTags(s) ==
  /\ reqs[s].pc = "stats_tags"
  /\ \E popularTags \in GetPopularTags(reqs[s].user, PopularTagsLimit) :
       Answer(s, reqs[s], Response(200, "", "Note statistics retrieved successfully",
         [statistics |-> IF Len(reqs[s].doc.stats) > 0
                         THEN reqs[s].doc.stats[1] ELSE ZeroStats,
          popularTags |-> popularTags]))
  /\ UNCHANGED <<users, noteVars, now, outbox, tokens, okVerifies>>

\* the account is deactivated in the store (isAccountActive: false)
Deactivate(u) ==
  /\ u \in UserIds
  /\ users[u].isAccountActive
  /\ users' = [users EXCEPT ![u].isAccountActive = FALSE]
  /\ UNCHANGED <<noteVars, now, reqs, reply, outbox, tokens, okVerifies>>

(***************************************************************************)
(* The router of /api/notes: its GET routes, in the order of registration  *)
(***************************************************************************)
\* the paths of router.get(...), first registered first
GetRoutes == <<"/", "/search", "/stats", "/:noteId", "/health">>

\* the request paths of the model, relative to /api/notes: the routes without
\* parameter and the paths of the notes
GetPaths == {"/", "/search", "/stats", "/health"}
              \cup {"/" \o ToString(n) : n \in NoteIdInputs}

\* Express's match of a route path: a parameter matches any one segment, a
\* path without parameter matches itself
RouteMatches(route, path) ==
  IF route = "/:noteId" THEN path # "/" ELSE route = path

\* the first registered route that matches: the one whose handlers run, each
\* of them here ending the request without next()
FirstMatch(path) ==
  CHOOSE i \in DOMAIN GetRoutes :
    /\ RouteMatches(GetRoutes[i], path)
    /\ \A j \in 1..(i - 1) : ~RouteMatches(GetRoutes[j], path)

\* req.params.noteId of a path matched by /:noteId: the note it names, or a
\* segment that is not an ObjectId
NoteIdOf(path) ==
  IF \E n \in NoteIdInputs : path = "/" \o ToString(n)
  THEN CHOOSE n \in NoteIdInputs : path = "/" \o ToString(n)
  ELSE MalformedNoteId

\* the handler of GET /health: no middleware before it
NotesHealth(s, limit) ==
  /\ Arrive(s, limit)
  /\ Answer(s, [IdleReq EXCEPT !.op = "health"],
            Response(200, "", "Notes service is healthy",
              [service |-> "notes-app-notes", status |-> "operational",
               timestamp |-> now, version |-> "1.0.0"]))
  /\ UNCHANGED noteVars

\* a GET request of the router: the handlers of the first matching route
GetRoute(s, limit, tok, path) ==
  LET route == GetRoutes[FirstMatch(path)]
  IN CASE route = "/" -> ListFind(s, limit, tok, DefaultQuery("absent"))
       [] route = "/search" -> SearchFind(s, limit, tok, "text")
       [] route = "/stats" -> StatsFind(s, limit, tok)
       [] route = "/:noteId" -> GetNoteById(s, limit, tok, NoteIdOf(path))
       [] route = "/health" -> NotesHealth(s, limit)

(***************************************************************************)
(* The clock.                                                              *)
(***************************************************************************)
Tick(maxTime) ==
  /\ now + TickStep <= maxTime
  /\ now' = now + TickStep
  /\ UNCHANGED <<users, noteVars, reqs, reply, outbox, tokens, okVerifies>>

(***************************************************************************)
(* Specifications.                                                         *)
(***************************************************************************)
NoMail == [to |-> "", kind |-> "none", otp |-> Undefined]

Init ==
  /\ users = <<>>
  /\ notes = <<>>
  /\ nextNoteId = 1
  /\ now = 0
  /\ reqs = [s \in Slots |-> IdleReq]
  /\ reply = NoReply
  /\ outbox = NoMail
  /\ tokens = {}
  /\ okVerifies = <<>>

SignupNext(limit, maxUsers, emails, phones) ==
  \/ \E s \in Slots, e \in emails, p \in phones, pw \in SignupPasswords :
       RegisterFindByEmail(s, limit, e, p, pw)
  \/ \E s \in Slots : RegisterFindByPhone(s)
  \/ \E s \in Slots, k \in 0..(NumOtps - 1), emailSent \in BOOLEAN :
       RegisterSave(s, maxUsers, k, emailSent)

VerifyNext(limit, emails) ==
  \/ \E s \in Slots, e \in emails, c \in CandidateOtps : VerifyFind(s, limit, e, c)
  \/ \E s \in Slots, emailSent \in BOOLEAN : VerifySave(s, emailSent)

ResendNext(limit, emails) ==
  \/ \E s \in Slots, e \in emails, k \in 0..(NumOtps - 1) :
       ResendFind(s, limit, e, k)
  \/ \E s \in Slots, emailSent \in BOOLEAN : ResendSave(s, emailSent)

SessionNext(limit, emails) ==
  \/ \E s \in Slots, e \in emails, pw \in Passwords : LoginFind(s, limit, e, pw)
  \/ \E s \in Slots : LoginSave(s)
  \/ \E s \in Slots, tok \in Presentable : GetCurrentUser(s, limit, tok)
  \/ \E s \in Slots, tok \in Presentable, n \in NoteIdInputs :
       GetNoteById(s, limit, tok, n)
  \/ \E u \in UserIds : Deactivate(u)

NotesNext(limit) ==
  \/ \E s \in Slots, tok \in tokens, t \in CreateTitles, c \in Contents,
        g \in TagLists : CreateNote(s, limit, tok, t, c, g)
  \/ \E s \in Slots, tok \in tokens, a \in ArchivedParams :
       ListFind(s, limit, tok, DefaultQuery(a))
  \/ \E s \in Slots : ListCount(s)
  \/ \E s \in Slots, tok \in tokens, n \in NoteIdInputs :
       GetNoteById(s, limit, tok, n)
  \/ \E s \in Slots, tok \in tokens, n \in NoteIdInputs, b \in UpdateBodies :
       UpdateFind(s, limit, tok, n, b)
  \/ \E s \in Slots, tok \in tokens, n \in NoteIdInputs :
       DeleteNote(s, limit, tok, n)
  \/ \E s \in Slots, tok \in tokens, n \in NoteIdInputs :
       TogglePinFind(s, limit, tok, n)
  \/ \E s \in Slots, tok \in tokens, n \in NoteIdInputs :
       ToggleArchiveFind(s, limit, tok, n)
  \/ \E s \in Slots : SaveAndAnswer(s)

\* concurrent signups
SpecSignup == Init /\ [][SignupNext(MaxReqs, MaxUsers, RawEmails, Phones) \/ Tick(MaxTime)]_vars

OtpEmails == {"Ann@x.io", "bob@x.io"}
OtpPhones == {"111"}

\* one account and its verification cycle, requests running concurrently
SpecOtp ==
  Init /\ [][\/ SignupNext(MaxReqs, 1, OtpEmails, OtpPhones)
             \/ VerifyNext(MaxReqs, OtpEmails)
             \/ ResendNext(MaxReqs, OtpEmails)
             \/ Tick(MaxTime)]_vars

\* the same, requests handled one after another
SpecOtpSeq ==
  Init /\ [][\/ SignupNext(1, 1, OtpEmails, OtpPhones)
             \/ VerifyNext(1, OtpEmails)
             \/ ResendNext(1, OtpEmails)
             \/ Tick(MaxTime)]_vars

\* one account from signup to its sessions: verification, login, the
\* bearer-protected routes, deactivation; requests handled one after another
SpecSession ==
  Init /\ [][\/ SignupNext(1, 1, OtpEmails, OtpPhones)
             \/ VerifyNext(1, OtpEmails)
             \/ SessionNext(1, OtpEmails)
             \/ Tick(MaxTime)]_vars

\* two verified users, each holding the token its verify-otp returned at time 0
NotesUser(e, p) ==
  [NewUser(e, p, BcryptHash("Secret1!")) EXCEPT !.isEmailVerified = TRUE]

InitNotes ==
  /\ users = <<NotesUser("ann@x.io", "111"), NotesUser("bob@x.io", "222")>>
  /\ notes = <<>>
  /\ nextNoteId = 1
  /\ now = 0
  /\ reqs = [s \in Slots |-> IdleReq]
  /\ reply = NoReply
  /\ outbox = NoMail
  /\ tokens = {GenerateAuthToken([id |-> u, rec |-> users[u]], 0) : u \in 1..2}
  /\ okVerifies = <<>>

\* the notes of two users, each presenting its token, requests handled one
\* after another
SpecNotes == InitNotes /\ [][NotesNext(1)]_vars

\* a request of any bearer-protected route, with the inputs of the model
ProtectedRoute(s, limit, tok) ==
  \/ GetCurrentUser(s, limit, tok)
  \/ \E t \in CreateTitles, c \in Contents, g \in TagLists :
       CreateNote(s, limit, tok, t, c, g)
  \/ \E a \in ArchivedParams : ListFind(s, limit, tok, DefaultQuery(a))
  \/ StatsFind(s, limit, tok)
  \/ \E n \in NoteIdInputs : GetNoteById(s, limit, tok, n)
  \/ \E n \in NoteIdInputs, b \in UpdateBodies : UpdateFind(s, limit, tok, n, b)
  \/ \E n \in NoteIdInputs : DeleteNote(s, limit, tok, n)
  \/ \E n \in NoteIdInputs : TogglePinFind(s, limit, tok, n)
  \/ \E n \in NoteIdInputs : ToggleArchiveFind(s, limit, tok, n)

\* clients that create and read notes while their token is good, and call
\* every protected route without a token, with a malformed one or with an
\* expired one
GuardNext(limit) ==
  \/ \E s \in Slots, tok \in tokens, t \in CreateTitles, c \in Contents,
        g \in TagLists : CreateNote(s, limit, tok, t, c, g)
  \/ \E s \in Slots, tok \in tokens, n \in NoteIdInputs :
       GetNoteById(s, limit, tok, n)
  \/ \E s \in Slots, tok \in Unusable : ProtectedRoute(s, limit, tok)

SpecGuard == InitNotes /\ [][GuardNext(1) \/ Tick(MaxTime)]_vars

\* the tag lists and the query strings of the listing specification
ListTagLists == {<<>>, <<"Work">>, <<"urgent">>, <<"work", "urgent">>}

ListQueries ==
  {Query(a, NoFilter, NoWindow) : a \in ArchivedParams}
    \cup {Query(a, f, NoWindow) :
            a \in {"absent", "true"},
            f \in {<<"Work", <<>>>>, <<"", <<"work", " Urgent">>>>}}
    \cup {Query(a, NoFilter, w) :
            a \in {"absent", "true"},
            w \in {<<<<1>>, <<0>>>>, <<<<1>>, <<1>>>>}}

\* two users create tagged notes, archive and unarchive them and list them
ListNext(limit) ==
  \/ \E s \in Slots, tok \in tokens, t \in CreateTitles, c \in Contents,
        g \in ListTagLists : CreateNote(s, limit, tok, t, c, g)
  \/ \E s \in Slots, tok \in tokens, n \in NoteIdInputs :
       ToggleArchiveFind(s, limit, tok, n)
  \/ \E s \in Slots : SaveAndAnswer(s)
  \/ \E s \in Slots, tok \in tokens, q \in ListQueries : ListFind(s, limit, tok, q)
  \/ \E s \in Slots : ListCount(s)

SpecList == InitNotes /\ [][ListNext(1)]_vars

\* two users create notes, pin and archive them and list them, as time passes
FlagsNext(limit) ==
  \/ \E s \in Slots, tok \in tokens, t \in CreateTitles, c \in Contents,
        g \in TagLists : CreateNote(s, limit, tok, t, c, g)
  \/ \E s \in Slots, tok \in tokens, n \in NoteIdInputs :
       TogglePinFind(s, limit, tok, n)
  \/ \E s \in Slots, tok \in tokens, n \in NoteIdInputs :
       ToggleArchiveFind(s, limit, tok, n)
  \/ \E s \in Slots : SaveAndAnswer(s)
  \/ \E s \in Slots, tok \in tokens : ListFind(s, limit, tok, DefaultQuery("true"))
  \/ \E s \in Slots : ListCount(s)

SpecFlags == InitNotes /\ [][FlagsNext(1) \/ Tick(MaxTime)]_vars

\* two users create tagged notes, pin, archive and delete them and read their
\* statistics
StatsNext(limit) ==
  \/ \E s \in Slots, tok \in tokens, t \in CreateTitles, c \in Contents,
        g \in ListTagLists : CreateNote(s, limit, tok, t, c, g)
  \/ \E s \in Slots, tok \in tokens, n \in NoteIdInputs :
       TogglePinFind(s, limit, tok, n)
  \/ \E s \in Slots, tok \in tokens, n \in NoteIdInputs :
       ToggleArchiveFind(s, limit, tok, n)
  \/ \E s \in Slots : SaveAndAnswer(s)
  \/ \E s \in Slots, tok \in tokens, n \in NoteIdInputs :
       DeleteNote(s, limit, tok, n)
  \/ \E s \in Slots, tok \in tokens : StatsFind(s, limit, tok)
  \/ \E s \in Slots : StatsTags(s)

SpecStats == InitNotes /\ [][StatsNext(1)]_vars

\* the instants of the clock
Instants == {k * TickStep : k \in 0..(MaxTime \div TickStep)}

\* an unverified account as verify-otp may find it at some instant: the
\* schema makes the code and its expiration optional, each on its own
InitVerify ==
  /\ \E code \in GeneratedOtps \cup {Undefined}, exp \in Instants \cup {NoDate} :
       users = <<[NewUser("ann@x.io", "111", BcryptHash("Secret1!"))
                   EXCEPT !.emailVerificationOtp = code, !.otpExpirationTime = exp]>>
  /\ notes = <<>>
  /\ nextNoteId = 1
  /\ now \in Instants
  /\ reqs = [s \in Slots |-> IdleReq]
  /\ reply = NoReply
  /\ outbox = NoMail
  /\ tokens = {}
  /\ okVerifies = <<>>

\* verify-otp requests against that account, handled one after another
SpecVerify == InitVerify /\ [][VerifyNext(1, OtpEmails)]_vars

\* two users create notes, archive them and search them
SearchNext(limit) ==
  \/ \E s \in Slots, tok \in tokens, t \in {"Groceries", "Plan"}, c \in Contents,
        g \in TagLists : CreateNote(s, limit, tok, t, c, g)
  \/ \E s \in Slots, tok \in tokens, n \in NoteIdInputs :
       ToggleArchiveFind(s, limit, tok, n)
  \/ \E s \in Slots : SaveAndAnswer(s)
  \/ \E s \in Slots, tok \in tokens, q \in SearchParams : SearchFind(s, limit, tok, q)
  \/ \E s \in Slots : SearchCount(s)

SpecSearch == InitNotes /\ [][SearchNext(1)]_vars

\* the bodies of the validation specification: every title, every content
\* and every tag list of the model beside valid other fields, and bodies
\* with several invalid fields
ValidateTitles == TitleInputs \ {"Groceries"}
ValidateTagLists == TagListInputs \ {<<"urgent">>, <<"work", "urgent">>}

CreateBodies ==
  {<<t, "text", <<>>>> : t \in ValidateTitles}
    \cup {<<"Plan", c, <<>>>> : c \in ContentInputs}
    \cup {<<"Plan", "text", g>> : g \in ValidateTagLists}
    \cup {<<"", " ", <<"a b">>>>,
          <<"No#", Repeat("c", MaxContentLength + 1), <<"Work">>>>,
          <<Undefined, "text", [i \in 1..(MaxTags + 1) |-> "t"]>>}

\* the update bodies of the validation specification
ValidateUpdateBodies ==
  {[noteTitle |-> t] : t \in ValidateTitles \ {Undefined}}
    \cup {[noteContent |-> c] : c \in ContentInputs}
    \cup {[noteTags |-> g] : g \in ValidateTagLists}
    \cup {[noteTitle |-> "No#", noteTags |-> <<"Work", "no#">>]}

\* two users create and update notes with bodies of every kind, valid and not
ValidateNext(limit) ==
  \/ \E s \in Slots, tok \in tokens, n \in NoteIdInputs, b \in ValidateUpdateBodies :
       UpdateFind(s, limit, tok, n, b)
  \/ \E s \in Slots : SaveAndAnswer(s)
  \/ \E s \in Slots, tok \in tokens, b \in CreateBodies :
       CreateNote(s, limit, tok, b[1], b[2], b[3])

SpecValidate == InitNotes /\ [][ValidateNext(1)]_vars

\* two users create notes and toggle their flags, the requests running
\* concurrently
ToggleNext(limit) ==
  \/ \E s \in Slots, tok \in tokens, t \in CreateTitles, c \in Contents,
        g \in TagLists : CreateNote(s, limit, tok, t, c, g)
  \/ \E s \in Slots, tok \in tokens, n \in NoteIdInputs :
       TogglePinFind(s, limit, tok, n)
  \/ \E s \in Slots, tok \in tokens, n \in NoteIdInputs :
       ToggleArchiveFind(s, limit, tok, n)
  \/ \E s \in Slots : SaveAndAnswer(s)

SpecToggle == InitNotes /\ [][ToggleNext(MaxReqs)]_vars

\* query strings of GET /notes, one for each rule of queryValidationRules that
\* parseInt and the store accept, and the default one
RuleQueries ==
  {DefaultQuery("absent"),
   Query("absent", NoFilter, <<<<0>>, <<>>>>),
   Query("absent", NoFilter, <<<<MaxLimit + 1>>, <<>>>>),
   Query("maybe", NoFilter, NoWindow),
   Query("absent", <<"a b", <<>>>>, NoWindow),
   Query("absent", <<"", <<"no#">>>>, NoWindow)}

\* those of them that break a rule
RuleBreakingQueries == {q \in RuleQueries : QueryRuleErrors(q) # <<>>}

\* the noteId parameters: those of the notes, and one that is not an ObjectId
RuleNoteIds == NoteIdInputs \cup {MalformedNoteId}

\* two users create notes and call the routes that carry queryValidationRules
\* or noteIdValidationRules, one request at a time
RulesNext(limit) ==
  \/ \E s \in Slots, tok \in tokens, t \in CreateTitles, c \in Contents,
        g \in TagLists : CreateNote(s, limit, tok, t, c, g)
  \/ \E s \in Slots, tok \in tokens, q \in RuleQueries : ListFind(s, limit, tok, q)
  \/ \E s \in Slots : ListCount(s)
  \/ \E s \in Slots, tok \in tokens, n \in RuleNoteIds :
       GetNoteById(s, limit, tok, n)
  \/ \E s \in Slots, tok \in tokens, n \in RuleNoteIds :
       DeleteNote(s, limit, tok, n)
  \/ \E s \in Slots, tok \in tokens, n \in RuleNoteIds :
       TogglePinFind(s, limit, tok, n)
  \/ \E s \in Slots, tok \in tokens, n \in RuleNoteIds :
       ToggleArchiveFind(s, limit, tok, n)
  \/ \E s \in Slots : SaveAndAnswer(s)

SpecRules == InitNotes /\ [][RulesNext(1)]_vars

\* two users create notes; GET requests of the router's paths arrive with or
\* without a token, one request at a time
RoutesNext(limit) ==
  \/ \E s \in Slots, tok \in tokens, t \in CreateTitles, c \in Contents,
        g \in ListTagLists : CreateNote(s, limit, tok, t, c, g)
  \/ \E s \in Slots, tok \in Presentable, path \in GetPaths :
       GetRoute(s, limit, tok, path)
  \/ \E s \in Slots : ListCount(s)
  \/ \E s \in Slots : SearchCount(s)
  \/ \E s \in Slots : StatsTags(s)

SpecRoutes == InitNotes /\ [][RoutesNext(1)]_vars

(***************************************************************************)
(* Uniqueness of accounts.                                                 *)
(***************************************************************************)
\* C7: in every reachable state, concurrent signups included, no two users
\* share an emailAddress (compared case-insensitively) or a phoneNumber
C7_OneUserPerEmailAndPhone ==
  \A u, v \in UserIds :
    u # v => /\ ToLowerCase(users[u].emailAddress) # ToLowerCase(users[v].emailAddress)
             /\ users[u].phoneNumber # users[v].phoneNumber

\* two accounts exist and a signup racing one of them lost at the unique index
C7_Witness ==
  /\ Len(users) = 2
  /\ reply.req.op = "signup"
  /\ reply.resp.status = 500
  /\ \E u \in UserIds : users[u].emailAddress = reply.req.emailAddress

\* some account, not the one this response created, holds the e-mail address
\* or the phone number of the signup the last response answers
DuplicateOfReply ==
  \E u \in UserIds :
    /\ \/ users[u].emailAddress = ToLowerCase(reply.req.emailAddress)
       \/ users[u].phoneNumber = reply.req.phoneNumber
    /\ ~(reply.resp.status = 201 /\ reply.resp.data.userId = u)

\* C8: a signup whose emailAddress or phoneNumber is that of a registered
\* user is answered 409 with EMAIL_ALREADY_EXISTS or PHONE_ALREADY_EXISTS
C8_DuplicateSignupIsConflict ==
  (reply.req.op = "signup" /\ DuplicateOfReply)
    => /\ reply.resp.status = 409
       /\ reply.resp.error \in {"EMAIL_ALREADY_EXISTS", "PHONE_ALREADY_EXISTS"}

(***************************************************************************)
(* The verification cycle.                                                 *)
(***************************************************************************)
\* C6: in every reachable state a user with isEmailVerified = true has no
\* stored code and no expiration time
C6_VerifiedHasNoOtp ==
  \A u \in UserIds :
    users[u].isEmailVerified
      => /\ users[u].emailVerificationOtp = Undefined
         /\ users[u].otpExpirationTime = NoDate

\* C4: of the verify-otp requests that carry one issued code (one user, one
\* code, one expiration) at most one succeeds
C4_OneSuccessPerCode ==
  \A i, j \in DOMAIN okVerifies : i # j => okVerifies[i] # okVerifies[j]

\* the user a verify-otp or resend-otp request for e-mail address e is about
UserOf(e) == FindByEmail(NormalizeEmail(e))

\* a verify-otp for e with code c arrives while that code is the stored one
\* and the clock is before its expiration: the request passes the checks
C3_ExactCodeInTimePasses ==
  \A s \in Slots, e \in RawEmails, c \in CandidateOtps :
    (/\ VerifyFind(s, 1, e, c)
     /\ UserOf(e) # 0
     /\ ~users[UserOf(e)].isEmailVerified
     /\ users[UserOf(e)].emailVerificationOtp = c
     /\ now < users[UserOf(e)].otpExpirationTime)
      => reqs'[s].pc = "ver_save"

\* a request that passed the checks is answered 200 with the user verified
\* and the code and expiration cleared
C3_SuccessMarksVerified ==
  \A s \in Slots :
    (reqs[s].pc = "ver_save" /\ reqs'[s].pc = "done")
      => /\ reply'.req.op = "verify"
         /\ reply'.resp.status = 200
         /\ users'[reqs[s].doc.id].isEmailVerified
         /\ users'[reqs[s].doc.id].emailVerificationOtp = Undefined
         /\ users'[reqs[s].doc.id].otpExpirationTime = NoDate

\* a verify-otp that arrives once the user is verified fails, whatever its code
C3_LaterVerifyFails ==
  \A s \in Slots, e \in RawEmails, c \in CandidateOtps :
    (/\ VerifyFind(s, 1, e, c)
     /\ UserOf(e) # 0
     /\ users[UserOf(e)].isEmailVerified)
      => /\ reqs'[s].pc = "done"
         /\ reply'.req.op = "verify"
         /\ reply'.resp.status = 400

\* C3: with requests handled one after another, a verify-otp carrying the
\* issued code before its expiration succeeds, sets isEmailVerified and clears
\* the code and the expiration; every later verify-otp for the user fails, so
\* no user is verified twice
C3_OtpRoundTrip ==
  /\ [](\A i, j \in DOMAIN okVerifies : i # j => okVerifies[i][1] # okVerifies[j][1])
  /\ [](\A i \in DOMAIN okVerifies :
          /\ users[okVerifies[i][1]].isEmailVerified
          /\ users[okVerifies[i][1]].emailVerificationOtp = Undefined
          /\ users[okVerifies[i][1]].otpExpirationTime = NoDate)
  /\ [][C3_ExactCodeInTimePasses /\ C3_SuccessMarksVerified /\ C3_LaterVerifyFails]_vars

\* a verification succeeded, and the replay of its code was then refused
C3_Witness ==
  /\ Len(okVerifies) = 1
  /\ reply.req.op = "verify"
  /\ reply.resp.error = "EMAIL_ALREADY_VERIFIED"
  /\ reply.req.otpCode = okVerifies[1][2]

\* the code resend-otp request s generated, which its save stores
NewCodeOf(s) == reqs[s].doc.rec.emailVerificationOtp

\* the save of a resend-otp for a user who is unverified and has a code pending
ResendSaveOver(s) ==
  /\ reqs[s].pc = "res_save"
  /\ reqs'[s].pc = "done"
  /\ ~users[reqs[s].doc.id].isEmailVerified
  /\ users[reqs[s].doc.id].emailVerificationOtp # Undefined

\* C5 as stated: once resend-otp has succeeded the previous code no longer
\* verifies, whatever the new code is
C5_PreviousCodeNeverVerifies ==
  [][\A s \in Slots :
       ResendSaveOver(s)
         => ~VerifyEmailOtp(users'[reqs[s].doc.id],
                            users[reqs[s].doc.id].emailVerificationOtp, now')]_vars

\* C5, amended: once resend-otp has succeeded the stored code is the newly
\* generated one and no other code verifies; the previous code fails whenever
\* the new code differs from it
C5_OnlyNewCodeVerifies ==
  [][\A s \in Slots :
       ResendSaveOver(s)
         => /\ reply'.resp.status = 200
            /\ \A c \in CandidateOtps :
                 VerifyEmailOtp(users'[reqs[s].doc.id], c, now')
                   <=> (c = NewCodeOf(s) /\ now' <= reqs[s].doc.rec.otpExpirationTime)
            /\ users[reqs[s].doc.id].emailVerificationOtp # NewCodeOf(s)
                 => ~VerifyEmailOtp(users'[reqs[s].doc.id],
                                    users[reqs[s].doc.id].emailVerificationOtp, now')]_vars

\* a resend-otp succeeded and stored a code other than the one mailed before
C5_Witness ==
  /\ reply.req.op = "resend"
  /\ reply.resp.status = 200
  /\ ~reply.resp.data.emailSent
  /\ outbox.kind = "otp"
  /\ \E u \in UserIds :
       /\ users[u].emailAddress = outbox.to
       /\ ~users[u].isEmailVerified
       /\ users[u].emailVerificationOtp \notin {Undefined, outbox.otp}

(***************************************************************************)
(* Sessions.                                                               *)
(***************************************************************************)
\* C9: no response of login or verify-otp carries an authToken while the
\* user's isEmailVerified is false
C9_TokenOnlyForVerified ==
  (/\ reply.req.op \in {"login", "verify"}
   /\ "authToken" \in DOMAIN reply.resp.data)
    => users[reply.resp.data.userId].isEmailVerified

\* the protected routes of the session specification, as one request
ProtectedRequest(s, tok) ==
  \/ GetCurrentUser(s, 1, tok)
  \/ \E n \in NoteIdInputs : GetNoteById(s, 1, tok, n)

\* C10: a request that presents a signed, unexpired token of a user whose
\* isAccountActive is false is answered 401 ACCOUNT_DEACTIVATED by the
\* middleware: req.user is never set, no handler answers, nothing is stored
C10_DeactivatedIsRejected ==
  [][\A s \in Slots, tok \in tokens :
       (/\ ProtectedRequest(s, tok)
        /\ now < tok.exp
        /\ tok.userId \in UserIds
        /\ ~users[tok.userId].isAccountActive)
         => /\ reply'.resp = Unauthorized("ACCOUNT_DEACTIVATED",
                                "Account is deactivated. Please contact support.")
            /\ reply'.req.token = tok
            /\ reply'.req.user = 0
            /\ reqs' = reqs
            /\ users' = users
            /\ notes' = notes]_vars

\* a token minted at this very instant was refused: its user is deactivated
C10_Witness ==
  /\ reply.resp.error = "ACCOUNT_DEACTIVATED"
  /\ reply.req.op = "get"
  /\ reply.req.token.kind = "jwt"
  /\ reply.req.token.exp = now + JwtExpiresIn

(***************************************************************************)
(* Owner isolation of notes.                                               *)
(***************************************************************************)
ByIdOps == {"get", "update", "delete", "pin", "archive"}

\* the ids of the notes a response carries
ReturnedIds(resp) ==
  IF "note" \in DOMAIN resp.data THEN {resp.data.note.id}
  ELSE IF "notes" \in DOMAIN resp.data
  THEN {resp.data.notes[i].id : i \in DOMAIN resp.data.notes}
  ELSE IF "deletedNote" \in DOMAIN resp.data THEN {resp.data.deletedNote.id}
  ELSE {}

\* this step is one of a request made with user b's identity
StepOf(b) ==
  \/ \E s \in Slots : reqs[s].user = b \/ reqs'[s].user = b
  \/ reply' # reply /\ reply'.req.user = b

\* C1: for a note n of user A and another user B, no step of a request made
\* with B's identity changes or deletes n, no response to B carries n, and
\* each of B's requests that names n by id is answered 404 NOTE_NOT_FOUND
C1_OwnerIsolation ==
  [][\A n \in NoteIds, b \in UserIds :
       (notes[n].noteOwner # b /\ StepOf(b))
         => /\ n \in DOMAIN notes'
            /\ notes'[n] = notes[n]
            /\ \A s \in Slots : reqs'[s].user = b => reqs'[s].doc.id # n
            /\ (reply' # reply /\ reply'.req.user = b)
                 => /\ n \notin ReturnedIds(reply'.resp)
                    /\ (reply'.req.op \in ByIdOps /\ reply'.req.noteId = n)
                         => /\ reply'.resp.status = 404
                            /\ reply'.resp.error = "NOTE_NOT_FOUND"]_vars

\* an update aimed at another user's note was answered 404 and the note is
\* still there
C1_Witness ==
  /\ reply.req.op = "update"
  /\ reply.req.noteId \in NoteIds
  /\ notes[reply.req.noteId].noteOwner # reply.req.user
  /\ reply.req.user # 0
  /\ reply.resp.status = 404

\* the response of this step answers a by-id request of an authenticated
\* caller for a note of another owner
AnswersForeign ==
  /\ reply' # reply
  /\ reply'.req.op \in ByIdOps
  /\ reply'.req.user # 0
  /\ reply'.req.noteId \in NoteIds
  /\ notes[reply'.req.noteId].noteOwner # reply'.req.user

\* the response of this step answers a by-id request of an authenticated
\* caller for an id no note has
AnswersMissing ==
  /\ reply' # reply
  /\ reply'.req.op \in ByIdOps
  /\ reply'.req.user # 0
  /\ reply'.req.noteId \notin NoteIds

\* C2: the response to a by-id request on a note of another owner and the
\* response to one on an id that does not exist are the same response: 404,
\* NOTE_NOT_FOUND, one message, no data
C2_ForeignLooksMissing ==
  [][(AnswersForeign \/ AnswersMissing)
       => /\ reply'.resp.status = 404
          /\ reply'.resp.error = "NOTE_NOT_FOUND"
          /\ reply'.resp.message = "Note not found or access denied"
          /\ reply'.resp.data = NoData]_vars

\* a toggle aimed at another user's note got the response of a missing note
C2_Witness ==
  /\ reply.req.op = "pin"
  /\ reply.req.user # 0
  /\ reply.req.noteId \in NoteIds
  /\ notes[reply.req.noteId].noteOwner # reply.req.user
  /\ reply.resp = NotFound

(***************************************************************************)
(* Requests without a usable token.                                        *)
(***************************************************************************)
\* the 401 the middleware owes a header it cannot use
Expected401(tok) ==
  CASE tok.kind = "none" ->
         Unauthorized("MISSING_TOKEN", "Access denied. No token provided.")
    [] tok.kind = "malformed" ->
         Unauthorized("INVALID_TOKEN_FORMAT", "Invalid token format.")
    [] OTHER ->
         Unauthorized("TOKEN_EXPIRED", "Token has expired. Please login again.")

\* C11: a request of a bearer-protected route that carries no token, a
\* malformed token or an expired token is answered 401 with MISSING_TOKEN,
\* INVALID_TOKEN_FORMAT or TOKEN_EXPIRED; no handler runs (req.user is never
\* set, no request stays in flight), the response carries no data and no
\* stored note or user changes
C11_NoTokenNoHandler ==
  [][\A s \in Slots, tok \in Unusable :
       ProtectedRoute(s, 1, tok)
         => /\ reply'.resp = Expected401(tok)
            /\ reply'.resp.data = NoData
            /\ reply'.req.token = tok
            /\ reply'.req.user = 0
            /\ reqs' = reqs
            /\ notes' = notes
            /\ nextNoteId' = nextNoteId
            /\ users' = users]_vars

\* the owner's expired token was refused on a delete of a note that exists
C11_Witness ==
  /\ reply.req.op = "delete"
  /\ reply.resp.error = "TOKEN_EXPIRED"
  /\ reply.req.noteId \in NoteIds
  /\ notes[reply.req.noteId].noteOwner = reply.req.token.userId

(***************************************************************************)
(* Listing.                                                                *)
(***************************************************************************)
\* the notes of the caller of list request r that satisfy the tag and archive
\* filters of its results
Listable(r) == MatchByUserId(r.user, QueryOptions(r.query))

\* C12: pagination.total of a list response is the number of the owner's
\* notes that satisfy the tag and archive filters of the returned results,
\* and hasMore is true exactly when skip + limit is less than that number
C12_TotalCountsTheResults ==
  [][\A s \in Slots :
       ListCount(s)
         => /\ reply'.resp.data.total = Cardinality(Listable(reqs[s]))
            /\ reply'.resp.data.hasMore
                 <=> (ParsedSkip(reqs[s].query) + ParsedLimit(reqs[s].query)
                        < Cardinality(Listable(reqs[s])))]_vars

\* the default list of an owner whose only note is archived was answered
C12_Witness ==
  /\ reply.req.op = "list"
  /\ reply.resp.status = 200
  /\ reply.req.query.includeArchived = "absent"
  /\ \E n \in OwnedBy(reply.req.user) : notes[n].isNoteArchived

\* the ids of the notes a list response carries
ListedIds(resp) == {resp.data.notes[i].id : i \in DOMAIN resp.data.notes}

\* C13: a list with includeArchived absent or "false" returns no archived
\* note; a list with includeArchived = "true" (no tag filter, the default
\* window) returns every note of the owner, archived or not
C13_ArchiveFilter ==
  [][\A s \in Slots :
       ListCount(s)
         => LET q == reqs[s].query
            IN /\ q.includeArchived \in {"absent", "false"}
                    => \A n \in ListedIds(reply'.resp) : ~notes[n].isNoteArchived
               /\ (/\ q.includeArchived = "true"
                    /\ <<q.tag, q.tags>> = NoFilter
                    /\ <<q.limit, q.skip>> = NoWindow)
                    => ListedIds(reply'.resp) = OwnedBy(reqs[s].user)]_vars

\* a note was archived and the includeArchived = "true" list still returns it
C13_Witness ==
  /\ reply.req.op = "list"
  /\ reply.req.query.includeArchived = "true"
  /\ \E n \in ListedIds(reply.resp) : notes[n].isNoteArchived

\* the requested tags, lower-cased and trimmed
RequestedTags(q) ==
  IF q.tag # "" THEN {Trim(ToLowerCase(q.tag))}
  ELSE {Trim(ToLowerCase(q.tags[i])) : i \in DOMAIN q.tags}

\* the owner's notes a list with includeArchived = a sees
Visible(userId, a) ==
  {n \in OwnedBy(userId) : a # "true" => ~notes[n].isNoteArchived}

\* the number of entries in a window of `limit` after `skip` over k results
WindowSize(k, limit, skip) ==
  IF k - skip < 0 THEN 0 ELSE IF k - skip < limit THEN k - skip ELSE limit

\* C15: with a tag filter, list returns the visible notes of the owner that
\* carry at least one of the requested tags, lower-cased: all of them in the
\* default window, and no other note
C15_TagFilterIsOr ==
  [][\A s \in Slots :
       (ListCount(s) /\ RequestedTags(reqs[s].query) # {})
         => LET q == reqs[s].query
                wanted == {n \in Visible(reqs[s].user, q.includeArchived) :
                             \E i \in DOMAIN notes[n].noteTags :
                               notes[n].noteTags[i] \in RequestedTags(q)}
            IN /\ ListedIds(reply'.resp) \subseteq wanted
               /\ Len(reply'.resp.data.notes)
                    = WindowSize(Cardinality(wanted), ParsedLimit(q), ParsedSkip(q))]_vars

\* a list asking for work or urgent returned a note tagged work and not urgent
C15_Witness ==
  /\ reply.req.op = "list"
  /\ reply.req.query.tags = <<"work", " Urgent">>
  /\ \E n \in ListedIds(reply.resp) : notes[n].noteTags = <<"work">>

(***************************************************************************)
(* The order of a list.                                                    *)
(***************************************************************************)
\* C14: the notes of a list response are ordered pinned first, and among
\* notes of the same pin flag by creation time, the latest first
C14_PinnedFirstThenNewest ==
  [][\A s \in Slots :
       ListCount(s)
         => LET l == reply'.resp.data.notes
            IN \A i, j \in DOMAIN l :
                 i < j => /\ l[j].rec.isNotePinned => l[i].rec.isNotePinned
                          /\ l[i].rec.isNotePinned = l[j].rec.isNotePinned
                               => l[i].rec.noteCreatedAt >= l[j].rec.noteCreatedAt]_vars

\* a list that puts a pinned note before an unpinned note created after it
C14_Witness ==
  /\ reply.req.op = "list"
  /\ reply.resp.status = 200
  /\ Len(reply.resp.data.notes) = 2
  /\ reply.resp.data.notes[1].rec.isNotePinned
  /\ ~reply.resp.data.notes[2].rec.isNotePinned
  /\ reply.resp.data.notes[1].rec.noteCreatedAt < reply.resp.data.notes[2].rec.noteCreatedAt

(***************************************************************************)
(* The statistics of an owner.                                             *)
(***************************************************************************)
\* the positions of the tag lists of the notes of an owner
TagPositions(userId) ==
  {p \in NoteIds \X (1..MaxTags) :
     notes[p[1]].noteOwner = userId /\ p[2] \in DOMAIN notes[p[1]].noteTags}

\* C16: the statistics answered are a 200 whose four counters are the number
\* of the owner's notes, of the pinned ones, of the archived ones and of the
\* tag occurrences in them; all four are 0 for an owner with no notes; the
\* notes of other owners are not counted
C16_StatsCountTheOwnersNotes ==
  [][\A s \in Slots :
       StatsTags(s)
         => LET u == reqs[s].user
                mine == {n \in NoteIds : notes[n].noteOwner = u}
                st == reply'.resp.data.statistics
            IN /\ reply'.resp.status = 200
               /\ st.totalNotes = Cardinality(mine)
               /\ st.pinnedNotes = Cardinality({n \in mine : notes[n].isNotePinned})
               /\ st.archivedNotes = Cardinality({n \in mine : notes[n].isNoteArchived})
               /\ st.totalTags = Cardinality(TagPositions(u))
               /\ mine = {} => st = ZeroStats]_vars

\* statistics of two notes that share a tag, one of them pinned and archived:
\* three tag occurrences of two distinct tags
C16_Witness ==
  /\ reply.req.op = "stats"
  /\ reply.resp.status = 200
  /\ reply.resp.data.statistics.totalNotes = 2
  /\ reply.resp.data.statistics.pinnedNotes = 1
  /\ reply.resp.data.statistics.archivedNotes = 1
  /\ reply.resp.data.statistics.totalTags = 3

\* statistics of an owner with no notes while the other owner has some
C16_WitnessZero ==
  /\ reply.req.op = "stats"
  /\ reply.resp.data.statistics = ZeroStats
  /\ NoteIds # {}

(***************************************************************************)
(* The frame of an update.                                                 *)
(***************************************************************************)
\* C17: the save of an update gives each field of the request body its
\* value from the body and leaves every field the body omits among
\* noteTitle, noteContent, noteTags, isNotePinned and isNoteArchived, as well
\* as noteOwner and noteCreatedAt, and every other note, as they were
C17_UpdateChangesOnlyGivenFields ==
  [][\A s \in Slots :
       (SaveAndAnswer(s) /\ reqs[s].op = "update")
         => LET n == reqs[s].doc.id
                b == reqs[s].body
            IN /\ NoteIds' = NoteIds
               /\ \A m \in NoteIds \ {n} : notes'[m] = notes[m]
               /\ \A f \in BodyFields \ DOMAIN b : notes'[n][f] = notes[n][f]
               /\ \A f \in DOMAIN b \ {"noteTags"} : notes'[n][f] = b[f]
               /\ notes'[n].noteOwner = notes[n].noteOwner
               /\ notes'[n].noteCreatedAt = notes[n].noteCreatedAt]_vars

\* an update of the title alone answered 200 for a note that an earlier
\* request had pinned: the note has the new title and is still pinned
C17_Witness ==
  /\ reply.req.op = "update"
  /\ reply.resp.status = 200
  /\ DOMAIN reply.req.body = {"noteTitle"}
  /\ reply.req.noteId \in NoteIds
  /\ notes[reply.req.noteId].noteTitle = reply.req.body.noteTitle
  /\ notes[reply.req.noteId].isNotePinned

(***************************************************************************)
(* The toggles.                                                            *)
(***************************************************************************)
\* the flag a toggle request flips
ToggledFlag(op) == IF op = "pin" THEN "isNotePinned" ELSE "isNoteArchived"

C19_VerifyExactlyWhen ==
  [][\A s \in Slots, e \in OtpEmails, c \in CandidateOtps :
       (/\ VerifyFind(s, 1, e, c)
        /\ FindByEmail(NormalizeEmail(e)) # 0
        /\ ~users[FindByEmail(NormalizeEmail(e))].isEmailVerified)
         => LET u == users[FindByEmail(NormalizeEmail(e))]
                good == /\ u.emailVerificationOtp # Undefined
                        /\ u.otpExpirationTime # NoDate
                        /\ now <= u.otpExpirationTime
                        /\ c = u.emailVerificationOtp
            IN /\ good <=> reqs'[s].pc = "ver_save"
               /\ ~good <=> (reply'.req.otpCode = c /\ reply'.resp.error = "INVALID_OTP"
                              /\ reqs'[s].pc = "done")]_vars

\* a verification with the stored code at the very instant of its expiration
\* was answered 200
C19_Witness ==
  /\ reply.req.op = "verify"
  /\ reply.resp.status = 200
  /\ okVerifies # <<>>
  /\ okVerifies[Len(okVerifies)][2] = reply.req.otpCode
  /\ okVerifies[Len(okVerifies)][3] = now

(***************************************************************************)
(* The frame of a failed verification.                                     *)
(***************************************************************************)
\* C20: a verify-otp request that is answered with a failure leaves the
\* users collection, and so isEmailVerified, the stored code and its
\* expiration, as they were; and whatever was attempted before, a request
\* with the stored code of an unverified account, made no later than the
\* expiration, passes the check and goes on to verify the account
C20_FailedVerifyChangesNothing ==
  [][\A s \in Slots, e \in OtpEmails, c \in CandidateOtps :
       VerifyFind(s, MaxReqs, e, c)
         => LET u == FindByEmail(NormalizeEmail(e))
            IN /\ reqs'[s].pc = "done"
                    => /\ reply'.resp.status \in {400, 404}
                       /\ users' = users
                       /\ tokens' = tokens
               /\ (/\ u # 0
                   /\ ~users[u].isEmailVerified
                   /\ c = users[u].emailVerificationOtp
                   /\ now <= users[u].otpExpirationTime)
                    => /\ reqs'[s].pc = "ver_save"
                       /\ reqs'[s].doc.rec.isEmailVerified]_vars

\* a verification with a wrong code has just failed while the account holds
\* a code that has not expired: the account is as it was, and its code still
\* passes the check
C20_Witness ==
  /\ reply.req.op = "verify"
  /\ reply.resp.error = "INVALID_OTP"
  /\ \E u \in UserIds :
       /\ users[u].emailAddress = reply.req.emailAddress
       /\ ~users[u].isEmailVerified
       /\ users[u].emailVerificationOtp \in GeneratedOtps \ {reply.req.otpCode}
       /\ now <= users[u].otpExpirationTime
       /\ VerifyEmailOtp(users[u], users[u].emailVerificationOtp, now)

(***************************************************************************)
(* Resend for a verified account.                                          *)
(***************************************************************************)
\* C21: a resend-otp that finds its account verified is answered 400
\* EMAIL_ALREADY_VERIFIED, where an unknown e-mail address is answered 404
\* USER_NOT_FOUND; in both cases no code is generated, no e-mail is sent and
\* the users collection is unchanged
C21_ResendRejectedWhenVerified ==
  [][\A s \in Slots, e \in OtpEmails, k \in 0..(NumOtps - 1) :
       ResendFind(s, MaxReqs, e, k)
         => LET u == FindByEmail(NormalizeEmail(e))
            IN /\ (u # 0 /\ users[u].isEmailVerified)
                    => /\ reply'.req.op = "resend"
                       /\ reply'.resp.status = 400
                       /\ reply'.resp.error = "EMAIL_ALREADY_VERIFIED"
               /\ u = 0
                    => /\ reply'.resp.status = 404
                       /\ reply'.resp.error = "USER_NOT_FOUND"
               /\ (u = 0 \/ users[u].isEmailVerified)
                    => /\ reqs'[s].pc = "done"
                       /\ users' = users
                       /\ outbox' = outbox]_vars

\* a resend-otp for a verified account was answered EMAIL_ALREADY_VERIFIED
\* and the account is verified with no code stored
C21_Witness ==
  /\ reply.req.op = "resend"
  /\ reply.resp.error = "EMAIL_ALREADY_VERIFIED"
  /\ \E u \in UserIds :
       /\ users[u].emailAddress = reply.req.emailAddress
       /\ users[u].isEmailVerified
       /\ users[u].emailVerificationOtp = Undefined

(***************************************************************************)
(* A signup whose e-mail is not delivered.                                 *)
(***************************************************************************)
\* C22: a signup whose OTP e-mail is not delivered is answered 201 with
\* emailSent = false and has stored the user, unverified, with the code it
\* generated and its expiration; and a resend-otp for an unverified user is
\* accepted: it generates a code, stores it with a new expiration and is
\* answered 200
C22_UndeliveredSignupKeepsUser ==
  [][\A s \in Slots :
       /\ \A k \in 0..(NumOtps - 1) :
            (/\ RegisterSave(s, 1, k, FALSE)
             /\ FindByEmail(reqs[s].emailAddress) = 0
             /\ FindByPhone(reqs[s].phoneNumber) = 0)
              => /\ reply'.resp.status = 201
                 /\ reply'.resp.data.emailSent = FALSE
                 /\ outbox' = outbox
                 /\ Len(users') = Len(users) + 1
                 /\ users'[Len(users')].emailAddress = reqs[s].emailAddress
                 /\ ~users'[Len(users')].isEmailVerified
                 /\ users'[Len(users')].emailVerificationOtp = RandomOtp(k)
                 /\ users'[Len(users')].otpExpirationTime = now + OtpTtl
       /\ \A e \in OtpEmails, k \in 0..(NumOtps - 1) :
            (/\ ResendFind(s, 1, e, k)
             /\ FindByEmail(NormalizeEmail(e)) # 0
             /\ ~users[FindByEmail(NormalizeEmail(e))].isEmailVerified)
              => /\ reqs'[s].pc = "res_save"
                 /\ reqs'[s].doc.rec.emailVerificationOtp = RandomOtp(k)
                 /\ reqs'[s].doc.rec.otpExpirationTime = now + OtpTtl
       /\ \A emailSent \in BOOLEAN :
            ResendSave(s, emailSent)
              => /\ reply'.resp.status = 200
                 /\ users'[reqs[s].doc.id].emailVerificationOtp
                      = reqs[s].doc.rec.emailVerificationOtp
                 /\ users'[reqs[s].doc.id].otpExpirationTime
                      = reqs[s].doc.rec.otpExpirationTime]_vars

\* a signup was answered 201 with emailSent = false: no e-mail has been sent
\* and the user exists, unverified, with a pending code
C22_Witness ==
  /\ reply.req.op = "signup"
  /\ reply.resp.status = 201
  /\ reply.resp.data.emailSent = FALSE
  /\ outbox = NoMail
  /\ \E u \in UserIds :
       /\ users[u].emailAddress = reply.req.emailAddress
       /\ ~users[u].isEmailVerified
       /\ users[u].emailVerificationOtp \in GeneratedOtps
       /\ now <= users[u].otpExpirationTime

\* after such a signup, with no e-mail ever delivered, a resend-otp was
\* answered 200 and the user holds a code issued later than the signup's
C22_WitnessResend ==
  /\ reply.req.op = "resend"
  /\ reply.resp.status = 200
  /\ outbox = NoMail
  /\ \E u \in UserIds :
       /\ users[u].emailAddress = reply.req.emailAddress
       /\ ~users[u].isEmailVerified
       /\ users[u].emailVerificationOtp \in GeneratedOtps
       /\ users[u].otpExpirationTime > OtpTtl

(***************************************************************************)
(* Search.                                                                 *)
(***************************************************************************)
\* the notes of an owner that a search may return: not archived, with a word
\* of the query, case aside, among the words of the title or the content
Findable(userId, q) ==
  {n \in NoteIds :
     /\ notes[n].noteOwner = userId
     /\ ~notes[n].isNoteArchived
     /\ \E w \in Split(q, ""), v \in Split(notes[n].noteTitle, "")
                                    \cup Split(notes[n].noteContent, "") :
          LowerCased(w) = LowerCased(v)}

\* C23: a search whose query is missing or has fewer than 2 characters after
\* trimming is answered 400 INVALID_SEARCH_QUERY at once, no query to the
\* store pending; any other search goes on to the store and is answered 200,
\* with an empty list and total 0 when no note matches
C23_ShortQueryRejectedNoMatchEmpty ==
  [][\A s \in Slots :
       /\ \A tok \in tokens, q \in SearchParams :
            SearchFind(s, 1, tok, q)
              => IF q = Undefined \/ Len(Trimmed(q)) < 2
                 THEN /\ reply'.resp.status = 400
                      /\ reply'.resp.error = "INVALID_SEARCH_QUERY"
                      /\ reqs'[s].pc = "done"
                 ELSE /\ reqs'[s].pc = "search_count"
                      /\ reply' = reply
       /\ SearchCount(s)
            => /\ reply'.resp.status = 200
               /\ {reply'.resp.data.notes[i].id : i \in DOMAIN reply'.resp.data.notes}
                    = Findable(reqs[s].user, reqs[s].query.q)
               /\ reply'.resp.data.total = Cardinality(Findable(reqs[s].user, reqs[s].query.q))
               /\ Findable(reqs[s].user, reqs[s].query.q) = {}
                    => /\ reply'.resp.data.notes = <<>>
                       /\ reply'.resp.data.total = 0]_vars

\* a query of one character between spaces was answered INVALID_SEARCH_QUERY
C23_Witness ==
  /\ reply.req.op = "search"
  /\ reply.req.query.q = " a "
  /\ reply.resp.status = 400
  /\ reply.resp.error = "INVALID_SEARCH_QUERY"

\* a query of two characters that no note of the owner matches, while the
\* owner has notes, was answered 200 with an empty list and total 0
C23_WitnessEmpty ==
  /\ reply.req.op = "search"
  /\ reply.req.query.q = " zz"
  /\ reply.resp.status = 200
  /\ reply.resp.data.notes = <<>>
  /\ reply.resp.data.total = 0
  /\ OwnedBy(reply.req.user) # {}

(***************************************************************************)
(* The validation of a create.                                             *)
(***************************************************************************)
\* the fields of a create body that break a rule: the title or the content
\* empty after trimming or over length, or a title with a character outside
\* its class; more than 10 tags, or a tag that is not 1 to 20 letters,
\* digits or hyphens
ViolatedFields(body) ==
  {f \in {"noteTitle"} :
     LET t == IF body.noteTitle = Undefined THEN "" ELSE Trimmed(body.noteTitle)
     IN \/ Len(t) < 1 \/ Len(t) > MaxTitleLength
        \/ \E i \in 1..Len(t) : CharAt(t, i) \notin TitleChars}
    \cup
  {f \in {"noteContent"} :
     Len(Trimmed(body.noteContent)) < 1 \/ Len(Trimmed(body.noteContent)) > MaxContentLength}
    \cup
  {f \in {"noteTags"} :
     \/ Len(body.noteTags) > MaxTags
     \/ \E i \in DOMAIN body.noteTags :
          \/ Len(body.noteTags[i]) < 1 \/ Len(body.noteTags[i]) > MaxTagLength
          \/ \E j \in 1..Len(body.noteTags[i]) :
               CharAt(body.noteTags[i], j) \notin TagChars}

\* C26: a create whose body breaks a rule is answered 400 "Validation
\* failed" with an error list whose fields are exactly the violated fields,
\* and stores no note; a create whose body breaks none is not answered 400
C26_CreateListsEveryViolatedField ==
  [][(reply' # reply /\ reply'.req.op = "create" /\ reply'.resp.status # 401)
         => LET bad == ViolatedFields(reply'.req.body)
            IN IF bad # {}
               THEN /\ reply'.resp.status = 400
                    /\ reply'.resp.message = "Validation failed"
                    /\ {reply'.resp.errors[i].field : i \in DOMAIN reply'.resp.errors} = bad
                    /\ notes' = notes
                    /\ nextNoteId' = nextNoteId
               ELSE reply'.resp.status = 201]_vars

\* a create whose title, content and tags are all invalid was answered 400
\* with errors for the three fields, and nothing is stored
C26_Witness ==
  /\ reply.req.op = "create"
  /\ reply.resp.status = 400
  /\ {reply.resp.errors[i].field : i \in DOMAIN reply.resp.errors}
       = {"noteTitle", "noteContent", "noteTags"}
  /\ notes = <<>>

(***************************************************************************)
(* The shape of the stored notes.                                          *)
(***************************************************************************)
\* C24: every stored note has one owner, who is a user, a title of 1 to 100
\* characters, a content of 1 to 10000 characters and at most 10 tags, each
\* of 1 to 20 letters, digits or hyphens, none of the letters in upper case
C24_StoredNotesAreWellFormed ==
  \A n \in NoteIds :
    /\ notes[n].noteOwner \in UserIds
    /\ Len(notes[n].noteTitle) \in 1..MaxTitleLength
    /\ Len(notes[n].noteContent) \in 1..MaxContentLength
    /\ Len(notes[n].noteTags) <= MaxTags
    /\ \A i \in DOMAIN notes[n].noteTags :
         LET tag == notes[n].noteTags[i]
         IN /\ Len(tag) \in 1..MaxTagLength
            /\ \A j \in 1..Len(tag) :
                 CharAt(tag, j) \in CharsOf(LowerCase) \cup CharsOf(Digits) \cup {"-"}

\* a create or an update with an invalid body has just been refused, and
\* the store holds a note with a title of 100 characters and a note whose
\* tag was sent as "Work" and is stored as "work"
C24_Witness ==
  /\ reply.req.op \in {"create", "update"}
  /\ reply.resp.status = 400
  /\ \E n \in NoteIds : Len(notes[n].noteTitle) = MaxTitleLength
  /\ \E n \in NoteIds : notes[n].noteTags = <<"work">>

(***************************************************************************)
(* The envelope of a failure.                                              *)
(***************************************************************************)
\* C25: every response of status 400 or above carries a message and an
\* error code
C25_FailureHasErrorCode ==
  reply.resp.status >= 400 => (reply.resp.message # "" /\ reply.resp.error # "")

\* a create was answered 400 "Validation failed" with a list of errors and
\* no error code
C25_Witness ==
  /\ reply.req.op = "create"
  /\ reply.resp.status = 400
  /\ reply.resp.message = "Validation failed"
  /\ reply.resp.errors # <<>>
  /\ reply.resp.error = ""

(***************************************************************************)
(* The popular tags.                                                       *)
(***************************************************************************)
\* C27: the popular tags answered are at most 10 tags of the owner's notes,
\* each with the number of its occurrences in them, in non-increasing order
\* of count; and a request that follows a request of the same owner, the
\* notes being the same, is answered the same sequence
C27_PopularTagsDeterministic ==
  [][\A s \in Slots :
       StatsTags(s)
         => LET u == reqs[s].user
                tags == reply'.resp.data.popularTags
            IN /\ Len(tags) <= PopularTagsLimit
               /\ \A i \in DOMAIN tags :
                    /\ tags[i].count > 0
                    /\ tags[i].count
                         = Cardinality({p \in TagPositions(u) :
                                          notes[p[1]].noteTags[p[2]] = tags[i].tag})
               /\ \A i, j \in DOMAIN tags : i < j => tags[i].count >= tags[j].count
               /\ (reply.req.op = "stats" /\ reply.req.user = u)
                    => tags = reply.resp.data.popularTags]_vars

\* the popular tags of an owner whose two tags have the same count were
\* answered with "work" before "urgent"
C27_Witness ==
  /\ reply.req.op = "stats"
  /\ reply.resp.status = 200
  /\ Len(reply.resp.data.popularTags) = 2
  /\ reply.resp.data.popularTags[1].tag = "work"
  /\ reply.resp.data.popularTags[1].count = reply.resp.data.popularTags[2].count

\* and with "urgent" before "work"
C27_WitnessOtherOrder ==
  /\ reply.req.op = "stats"
  /\ reply.resp.status = 200
  /\ Len(reply.resp.data.popularTags) = 2
  /\ reply.resp.data.popularTags[1].tag = "urgent"
  /\ reply.resp.data.popularTags[1].count = reply.resp.data.popularTags[2].count

(***************************************************************************)
(* Concurrent toggles.                                                     *)
(***************************************************************************)
\* C28: with requests running concurrently, every toggle that is answered
\* 200 has flipped the stored flag of its route, so that the flag is at its
\* original value after two of them: no toggle is lost
C28_NoToggleLost ==
  [][\A s \in Slots :
       (/\ SaveAndAnswer(s)
        /\ reqs[s].op \in {"pin", "archive"}
        /\ reply'.resp.status = 200)
         => notes'[reqs[s].doc.id][ToggledFlag(reqs[s].op)]
              = ~notes[reqs[s].doc.id][ToggledFlag(reqs[s].op)]]_vars

\* two pin toggles of one note are in flight, both having loaded the note
\* with the same value of the flag
C28_Witness ==
  \E s, o \in Slots :
    /\ s # o
    /\ reqs[s].pc = "save" /\ reqs[o].pc = "save"
    /\ reqs[s].op = "pin" /\ reqs[o].op = "pin"
    /\ reqs[s].doc.id = reqs[o].doc.id
    /\ reqs[s].doc.old.isNotePinned = reqs[o].doc.old.isNotePinned
\* C29: a request that violates a validation rule declared on its notes route
\* (a limit outside 1..100, a non-boolean includeArchived, a malformed tag or
\* tags on GET /notes; a noteId that is not an ObjectId on GET, DELETE and
\* PATCH /notes/:noteId) is answered 400 before any store query runs.
C29_RuleViolationsRejected ==
  [][\A s \in Slots, tok \in tokens :
       /\ \A q \in RuleBreakingQueries :
            ListFind(s, 1, tok, q)
              => (reqs'[s].pc = "done" /\ reply'.resp.status = 400)
       /\ (\/ GetNoteById(s, 1, tok, MalformedNoteId)
           \/ DeleteNote(s, 1, tok, MalformedNoteId)
           \/ TogglePinFind(s, 1, tok, MalformedNoteId)
           \/ ToggleArchiveFind(s, 1, tok, MalformedNoteId))
            => (reqs'[s].pc = "done" /\ reply'.resp.status = 400)]_vars

\* a listing whose query string breaks a rule has been answered 200
C29_Witness ==
  /\ reply.req.op = "list"
  /\ reply.req.query \in RuleBreakingQueries
  /\ reply.resp.status = 200

\* a request for a noteId that is not an ObjectId has been answered 500
C29_WitnessNoteId ==
  /\ reply.req.op \in {"get", "delete", "pin", "archive"}
  /\ reply.req.noteId = MalformedNoteId
  /\ reply.resp.status = 500
  /\ NoteIdRuleErrors(reply.req.noteId) # <<>>
\* C30: GET /api/notes/health is public: a request without a token receives
\* the 200 health response, so that route matching never hands it to the
\* authenticated /:noteId route.
C30_HealthIsPublic ==
  [][\A s \in Slots :
       GetRoute(s, 1, NoToken, "/health")
         => /\ reply'.resp.status = 200
            /\ reply'.resp.message = "Notes service is healthy"]_vars

\* a GET /health without token has been handled by /:noteId's middleware
C30_Witness ==
  /\ GetRoutes[FirstMatch("/health")] = "/:noteId"
  /\ reply.req.op = "get"
  /\ reply.req.noteId = NoteIdOf("/health")
  /\ reply.req.token = NoToken
  /\ reply.resp.status = 401
  /\ reply.resp.error = "MISSING_TOKEN"
====
